---------------------------- MODULE Spec2Model ----------------------------
(***************************************************************************)
(* A model of ebook-gen: the two streaming passes over an aggregated JSON  *)
(* export (CollectAggregatedMetadata, StreamAggregatedTerms) with their    *)
(* progress goroutines, and the worker pool of ReadTermFiles.              *)
(*                                                                         *)
(* A JSON document is a sequence of lexical tokens; encoding/json's        *)
(* Decoder (Token, More, Decode) is modelled over that sequence with its   *)
(* tokenState machine, so what the passes do on a document is computed     *)
(* the way the code computes it.                                           *)
(***************************************************************************)
EXTENDS Integers, Sequences, FiniteSets, TLC

(***************************************************************************)
(* Bounds of the model.                                                    *)
(***************************************************************************)
\* entries of the `terms` object of an input document
MaxEntries == 2
\* files of the input directory on the small-file path
MaxFiles == 3

(***************************************************************************)
(* Strings.  Go compares strings byte-wise; Bytes gives the bytes of every *)
(* string the model uses.                                                  *)
(***************************************************************************)
ABSENT == "ABSENT"

Bytes ==
  [s \in {"", "a", "b", "ab", "x", "t", "terms"} |->
     CASE s = ""      -> <<>>
       [] s = "a"     -> <<97>>
       [] s = "b"     -> <<98>>
       [] s = "ab"    -> <<97, 98>>
       [] s = "x"     -> <<120>>
       [] s = "t"     -> <<116>>
       [] s = "terms" -> <<116, 101, 114, 109, 115>>]

RECURSIVE SeqLess(_, _)
SeqLess(u, v) ==
  IF v = <<>> THEN FALSE
  ELSE IF u = <<>> THEN TRUE
  ELSE IF Head(u) # Head(v) THEN Head(u) < Head(v)
  ELSE SeqLess(Tail(u), Tail(v))

\* s < t on Go strings
StrLess(s, t) == SeqLess(Bytes[s], Bytes[t])

(***************************************************************************)
(* JSON text as tokens.  t is the lexical class, v the text of a string or *)
(* number.  "bad" is a character that starts no JSON value.                *)
(***************************************************************************)
Tok(t, v) == [t |-> t, v |-> v]
P(c)      == Tok(c, "")
Str(s)    == Tok("str", s)
Num(n)    == Tok("num", n)
Null      == Tok("null", "")
True      == Tok("bool", "true")
Bad       == Tok("bad", "")

Scalars == {"str", "num", "bool", "null"}

\* the value of a JSON number as Go's int(float64) gives it, and whether its
\* text is an integer literal (strconv.ParseInt accepts it)
NumText == {"0", "1", "2", "1.0", "1.5"}
IsIntLit(n) == n \in {"0", "1", "2"}
NumInt(n) ==
  CASE n = "0" -> 0 [] n = "1" -> 1 [] n = "2" -> 2
    [] n = "1.0" -> 1 [] n = "1.5" -> 1

RECURSIVE Join(_)
\* the concatenation of the token sequences parts[1..], separated by commas
Join(parts) ==
  IF parts = <<>> THEN <<>>
  ELSE IF Len(parts) = 1 THEN parts[1]
  ELSE parts[1] \o <<P(",")>> \o Join(Tail(parts))

(***************************************************************************)
(* Input documents.  An entry of the `terms` object is a key and a value;  *)
(* the value is an object with optional searchTerm / definitionsCount      *)
(* members, null, a string, or an invalid character; kind "badkey" is an   *)
(* invalid character where the key should be.                              *)
(***************************************************************************)
Entry(key, kind, st, dc) == [key |-> key, kind |-> kind, st |-> st, dc |-> dc]

EntryValueTokens(e) ==
  CASE e.kind = "obj" ->
         <<P("{")>>
         \o Join((IF e.st = ABSENT THEN <<>>
                  ELSE << <<Str("searchTerm"), P(":"), Str(e.st)>> >>)
                 \o (IF e.dc = ABSENT THEN <<>>
                     ELSE << <<Str("definitionsCount"), P(":"), Num(e.dc)>> >>))
         \o <<P("}")>>
    [] e.kind = "null" -> <<Null>>
    [] e.kind = "str"  -> <<Str("x")>>
    [] e.kind = "bad"  -> <<Bad>>

EntryTokens(e) ==
  IF e.kind = "badkey" THEN <<Bad>>
  ELSE <<Str(e.key), P(":")>> \o EntryValueTokens(e)

\* a top-level member other than `terms`: a key and a scalar value
Member(k, v) == [k |-> k, v |-> v]
MemberTokens(m) == <<Str(m.k), P(":"), m.v>>

\* the value of the `terms` member
TermsVal(kind, tok, entries) == [kind |-> kind, tok |-> tok, entries |-> entries]
NoTerms == TermsVal("absent", Null, <<>>)

TermsTokens(tv) ==
  <<Str("terms"), P(":")>>
  \o (CASE tv.kind = "obj" ->
             <<P("{")>> \o Join([i \in 1..Len(tv.entries) |-> EntryTokens(tv.entries[i])])
             \o <<P("}")>>
        [] tv.kind = "arr" ->
             <<P("[")>>
             \o Join([i \in 1..Len(tv.entries) |->
                        <<Str(tv.entries[i].key), P(",")>>
                        \o EntryValueTokens(tv.entries[i])])
             \o <<P("]")>>
        [] tv.kind = "scalar" -> <<tv.tok>>)

\* the document: { pre..., "terms": ..., post... }
Tokens(d) ==
  <<P("{")>>
  \o Join([i \in 1..Len(d.pre) |-> MemberTokens(d.pre[i])]
          \o (IF d.terms.kind = "absent" THEN <<>> ELSE <<TermsTokens(d.terms)>>)
          \o [i \in 1..Len(d.post) |-> MemberTokens(d.post[i])])
  \o <<P("}")>>

(***************************************************************************)
(* encoding/json: the scanner that finds the end of one value              *)
(* (Decoder.readValue).  ScanValue is the index of the value's last token, *)
(* 0 on a syntax error, -1 when the input ends inside the value.           *)
(***************************************************************************)
RECURSIVE Scan(_, _, _, _)
Scan(toks, i, stack, st) ==
  IF i > Len(toks) THEN -1
  ELSE
    LET c == toks[i].t
        After(stk) ==
          IF stk = <<>> THEN i
          ELSE Scan(toks, i + 1, stk, IF Head(stk) = "obj" THEN "objNext" ELSE "arrNext")
    IN
    CASE st \in {"val", "valOrEnd"} ->
           IF c = "{" THEN Scan(toks, i + 1, <<"obj">> \o stack, "keyOrEnd")
           ELSE IF c = "[" THEN Scan(toks, i + 1, <<"arr">> \o stack, "valOrEnd")
           ELSE IF c \in Scalars THEN After(stack)
           ELSE IF c = "]" /\ st = "valOrEnd" THEN After(Tail(stack))
           ELSE 0
      [] st = "keyOrEnd" ->
           IF c = "}" THEN After(Tail(stack))
           ELSE IF c = "str" THEN Scan(toks, i + 1, stack, "colon")
           ELSE 0
      [] st = "key" ->
           IF c = "str" THEN Scan(toks, i + 1, stack, "colon") ELSE 0
      [] st = "colon" ->
           IF c = ":" THEN Scan(toks, i + 1, stack, "val") ELSE 0
      [] st = "objNext" ->
           IF c = "," THEN Scan(toks, i + 1, stack, "key")
           ELSE IF c = "}" THEN After(Tail(stack))
           ELSE 0
      [] st = "arrNext" ->
           IF c = "," THEN Scan(toks, i + 1, stack, "val")
           ELSE IF c = "]" THEN After(Tail(stack))
           ELSE 0

ScanValue(toks, i) == Scan(toks, i, <<>>, "val")

(***************************************************************************)
(* encoding/json: Decoder.  A decoder is [pos, st, stack]: the index of    *)
(* the next unread token, the tokenState and the tokenStack.  Every        *)
(* operation returns a record with the decoder after it in field d.        *)
(***************************************************************************)
NewDecoder == [pos |-> 1, st |-> "TopValue", stack |-> <<>>]

tokenValueAllowed(st) ==
  st \in {"TopValue", "ArrayStart", "ArrayValue", "ObjectValue"}

tokenValueEnd(st) ==
  CASE st \in {"ArrayStart", "ArrayValue"} -> "ArrayComma"
    [] st = "ObjectValue" -> "ObjectComma"
    [] OTHER -> st

\* Decoder.More
DecMore(toks, d) ==
  d.pos <= Len(toks) /\ toks[d.pos].t \notin {"]", "}"}

\* Decoder.tokenPrepareForDecode
DecPrepare(toks, d) ==
  IF d.st \in {"ArrayComma", "ObjectColon"}
  THEN IF d.pos > Len(toks) THEN [err |-> "EOF", d |-> d]
       ELSE IF toks[d.pos].t # (IF d.st = "ArrayComma" THEN "," ELSE ":")
            THEN [err |-> "syntax", d |-> d]
       ELSE [err |-> "",
             d |-> [d EXCEPT !.pos = d.pos + 1,
                             !.st = IF d.st = "ArrayComma" THEN "ArrayValue"
                                    ELSE "ObjectValue"]]
  ELSE [err |-> "", d |-> d]

\* Decoder.Decode up to the unmarshalling: the tokens from..to hold the value
DecDecode(toks, d0) ==
  LET p == DecPrepare(toks, d0)
      d == p.d
      e == ScanValue(toks, d.pos)
  IN  IF p.err # "" THEN [err |-> p.err, from |-> 0, to |-> 0, d |-> d]
      ELSE IF ~tokenValueAllowed(d.st)
           THEN [err |-> "syntax", from |-> 0, to |-> 0, d |-> d]
      ELSE IF e = -1
           THEN [err |-> IF d.pos > Len(toks) THEN "EOF" ELSE "unexpectedEOF",
                 from |-> 0, to |-> 0, d |-> d]
      ELSE IF e = 0 THEN [err |-> "syntax", from |-> 0, to |-> 0, d |-> d]
      ELSE [err |-> "", from |-> d.pos, to |-> e,
            d |-> [d EXCEPT !.pos = e + 1, !.st = tokenValueEnd(d.st)]]

RECURSIVE DecToken(_, _)
\* Decoder.Token: tok is the token returned (a delimiter or a scalar)
DecToken(toks, d) ==
  IF d.pos > Len(toks) THEN [tok |-> Null, err |-> "EOF", d |-> d]
  ELSE
    LET c == toks[d.pos].t
        Fail == [tok |-> Null, err |-> "syntax", d |-> d]
    IN
    CASE c \in {"[", "{"} ->
           IF ~tokenValueAllowed(d.st) THEN Fail
           ELSE [tok |-> P(c), err |-> "",
                 d |-> [pos |-> d.pos + 1,
                        st |-> IF c = "[" THEN "ArrayStart" ELSE "ObjectStart",
                        stack |-> <<d.st>> \o d.stack]]
      [] c = "]" ->
           IF d.st \notin {"ArrayStart", "ArrayComma"} THEN Fail
           ELSE [tok |-> P(c), err |-> "",
                 d |-> [pos |-> d.pos + 1, st |-> tokenValueEnd(Head(d.stack)),
                        stack |-> Tail(d.stack)]]
      [] c = "}" ->
           IF d.st \notin {"ObjectStart", "ObjectComma"} THEN Fail
           ELSE [tok |-> P(c), err |-> "",
                 d |-> [pos |-> d.pos + 1, st |-> tokenValueEnd(Head(d.stack)),
                        stack |-> Tail(d.stack)]]
      [] c = ":" ->
           IF d.st # "ObjectColon" THEN Fail
           ELSE DecToken(toks, [d EXCEPT !.pos = d.pos + 1, !.st = "ObjectValue"])
      [] c = "," ->
           IF d.st = "ArrayComma"
           THEN DecToken(toks, [d EXCEPT !.pos = d.pos + 1, !.st = "ArrayValue"])
           ELSE IF d.st = "ObjectComma"
           THEN DecToken(toks, [d EXCEPT !.pos = d.pos + 1, !.st = "ObjectKey"])
           ELSE Fail
      [] OTHER ->
           IF c = "str" /\ d.st \in {"ObjectStart", "ObjectKey"}
           THEN [tok |-> toks[d.pos], err |-> "",
                 d |-> [d EXCEPT !.pos = d.pos + 1, !.st = "ObjectColon"]]
           ELSE IF ~tokenValueAllowed(d.st) THEN Fail
           ELSE LET r == DecDecode(toks, d)
                IN  [tok |-> IF r.err = "" THEN toks[r.from] ELSE Null,
                     err |-> r.err, d |-> r.d]

(***************************************************************************)
(* encoding/json: unmarshalling the value held by tokens i..j.             *)
(***************************************************************************)
RECURSIVE MembersFrom(_, _)
\* the members of an object, from the token p after "{" or ",": each is
\* [k: the key, from, to: the tokens of its value]
MembersFrom(toks, p) ==
  IF toks[p].t = "}" THEN <<>>
  ELSE LET e == ScanValue(toks, p + 2)
           next == IF toks[e + 1].t = "," THEN e + 2 ELSE e + 1
       IN  <<[k |-> toks[p].v, from |-> p + 2, to |-> e]>> \o MembersFrom(toks, next)

ObjMembers(toks, i) == MembersFrom(toks, i + 1)

\* struct fields are matched by name ignoring case; the names of the model's
\* documents are spelled as the struct tags spell them
EqualFold(k, name) == k = name

ZeroSmall ==
  [err |-> FALSE, SearchTerm |-> "", DefinitionsCount |-> 0, RelatedTermsCount |-> 0]

RECURSIVE ApplySmall(_, _, _)
ApplySmall(toks, ms, acc) ==
  IF ms = <<>> THEN acc
  ELSE
    LET m == Head(ms)
        v == toks[m.from]
        isCount == EqualFold(m.k, "definitionsCount") \/ EqualFold(m.k, "relatedTermsCount")
        next ==
          IF EqualFold(m.k, "searchTerm")
          THEN IF v.t = "str" THEN [acc EXCEPT !.SearchTerm = v.v]
               ELSE IF v.t = "null" THEN acc
               ELSE [acc EXCEPT !.err = TRUE]
          ELSE IF isCount
          THEN IF v.t = "num" /\ IsIntLit(v.v)
               THEN IF EqualFold(m.k, "definitionsCount")
                    THEN [acc EXCEPT !.DefinitionsCount = NumInt(v.v)]
                    ELSE [acc EXCEPT !.RelatedTermsCount = NumInt(v.v)]
               ELSE IF v.t = "null" THEN acc
               ELSE [acc EXCEPT !.err = TRUE]
          ELSE acc
    IN  ApplySmall(toks, Tail(ms), next)

\* json: unmarshal into the struct small of CollectAggregatedMetadata
UnmarshalSmall(toks, i) ==
  IF toks[i].t = "null" THEN ZeroSmall
  ELSE IF toks[i].t # "{" THEN [ZeroSmall EXCEPT !.err = TRUE]
  ELSE ApplySmall(toks, ObjMembers(toks, i), ZeroSmall)

\* json: unmarshal into map[string]interface{}: the members kept, or an error
UnmarshalMap(toks, i) ==
  IF toks[i].t = "null" THEN [err |-> FALSE, ms |-> <<>>]
  ELSE IF toks[i].t # "{" THEN [err |-> TRUE, ms |-> <<>>]
  ELSE [err |-> FALSE, ms |-> ObjMembers(toks, i)]

\* rawTerm[name]: the index of the value's first token, 0 when the key is absent
\* (a repeated key keeps its last value)
RawLookup(ms, name) ==
  LET hits == {n \in 1..Len(ms) : ms[n].k = name}
  IN  IF hits = {} THEN 0
      ELSE ms[CHOOSE n \in hits : \A o \in hits : o <= n].from

(***************************************************************************)
(* sort.Slice(x, func(i, j) bool { return x[i].SearchTerm < x[j].SearchTerm*)
(* }).  For slices of at most 12 elements sort.Slice is an insertion sort: *)
(* an element moves left past the elements that are greater, so elements   *)
(* with equal keys keep the order they arrived in.                         *)
(***************************************************************************)
RECURSIVE InsertByTerm(_, _)
\* x inserted into the sorted sequence s, after the elements not greater
InsertByTerm(s, x) ==
  IF s = <<>> THEN <<x>>
  ELSE IF StrLess(x.SearchTerm, s[Len(s)].SearchTerm)
       THEN InsertByTerm(SubSeq(s, 1, Len(s) - 1), x) \o <<s[Len(s)]>>
       ELSE s \o <<x>>

\* the sort left out
SortBySearchTerm_Unsorted(s) == s

RECURSIVE SortBySearchTerm(_)
SortBySearchTerm(s) ==
  IF s = <<>> THEN <<>>
  ELSE InsertByTerm(SortBySearchTerm(SubSeq(s, 1, Len(s) - 1)), s[Len(s)])

(***************************************************************************)
(* The records of the program.                                             *)
(***************************************************************************)
TermMeta(st, dc, rc) ==
  [SearchTerm |-> st, DefinitionsCount |-> dc, RelatedTermsCount |-> rc]

TermData(st, dc, rc) ==
  [SearchTerm |-> st, DefinitionsCount |-> dc, RelatedTermsCount |-> rc]

\* the TermData built with the searchTerm of rawTerm only
BuildTermData_NoFallback(toks, ms, keyStr) ==
  LET stI == RawLookup(ms, "searchTerm")
      dcI == RawLookup(ms, "definitionsCount")
      rcI == RawLookup(ms, "relatedTermsCount")
      count(i) == IF i # 0 /\ toks[i].t = "num" THEN NumInt(toks[i].v) ELSE 0
  IN  TermData(IF stI # 0 /\ toks[stI].t = "str" THEN toks[stI].v ELSE "",
               count(dcI), count(rcI))

\* StreamAggregatedTerms: the TermData built from rawTerm and the map key
BuildTermData(toks, ms, keyStr) ==
  LET stI == RawLookup(ms, "searchTerm")
      dcI == RawLookup(ms, "definitionsCount")
      rcI == RawLookup(ms, "relatedTermsCount")
      count(i) == IF i # 0 /\ toks[i].t = "num" THEN NumInt(toks[i].v) ELSE 0
  IN  TermData(IF stI # 0 /\ toks[stI].t = "str" /\ toks[stI].v # ""
               THEN toks[stI].v ELSE keyStr,
               count(dcI), count(rcI))

(***************************************************************************)
(* State.                                                                  *)
(***************************************************************************)
VARIABLES
  \* the aggregated file: its document
  input,
  \* the pass the caller is in: "collect", "stream", "end"
  pass,
  \* the statement the running pass is at
  pc,
  \* dec: the json.Decoder of the running pass
  dec,
  \* keyStr and the record decoded for the entry at hand (<<>> when none)
  keyStr, held,
  \* metas of CollectAggregatedMetadata, idx of StreamAggregatedTerms
  metas, idx,
  \* what each pass returned: [state, err] and the metas returned
  collectRet, streamRet,
  \* the calls fn(idx, t) made by StreamAggregatedTerms, in order
  calls,
  \* per pass: how often close(stop) ran, and its progress goroutine
  stopCloses, ticker, printed

aggVars == <<input, pass, pc, dec, keyStr, held, metas, idx, collectRet, streamRet,
             calls, stopCloses, ticker, printed>>

VARIABLES
  \* the .json files of the input directory, in directory order, and the
  \* global workerCount
  files, workerCount,
  \* ReadTermFiles: the statement the calling goroutine is at, numWorkers,
  \* terms and processed of the collection loop, and what it returned
  pcMain, numWorkers, terms, processed, readRet,
  \* the goroutine that feeds inCh: its statement and the index of the next path
  pcProd, next,
  \* close(inCh) and close(outCh) have run
  inClosed, outClosed,
  \* per worker: its statement, the file it holds (0: none) and the record
  \* it decoded
  pcW, wFile, wTerm,
  \* history: how many workers received each path, the files decoded with
  \* success, the files whose record the collector received, in order
  takenBy, decoded, received

poolVars == <<files, workerCount, pcMain, numWorkers, terms, processed, readRet,
              pcProd, next, inClosed, outClosed, pcW, wFile, wTerm,
              takenBy, decoded, received>>

VARIABLES
  \* who runs the passes: "passes" (each pass called on its own, with any
  \* callback), "GenerateEPUB", or "none"
  caller,
  \* the entries created in the zip archive, in order
  archive,
  \* what GenerateEPUB returned
  genRet

epubVars == <<caller, archive, genRet>>

VARIABLES
  \* countingReader: the fields total and read
  crTotal, crRead,
  \* the underlying source: the bytes it has not yet delivered
  srcLeft,
  \* the goroutine in Read: "idle", or "count" between cr.r.Read(p) and the
  \* locked section, with the (n, err) the source returned
  pcRead, got,
  \* the (n, err) of every Read that returned, in order
  reads,
  \* the values BytesRead() returned to a polling goroutine, in order
  polled

readerVars == <<crTotal, crRead, srcLeft, pcRead, got, reads, polled>>

VARIABLES
  \* one term record as JSON, the decoder it is given to ("none" before),
  \* what the decoder made of it, and the sections of the chapter and of the
  \* HTML page rendered from that
  rec, recPath, recTerm, recShown

recVars == <<rec, recPath, recTerm, recShown>>

VARIABLES
  \* one TermData, the chapters formatTermChapter returned for it and the
  \* pages buildHTML returned for it, call after call
  chTerm, chapters, pages

chapVars == <<chTerm, chapters, pages>>

VARIABLES
  \* the arguments terms and aggregatedPath of GenerateEPUB, and the index i
  \* of its loop over terms
  genTerms, aggregatedPath, genI

memVars == <<genTerms, aggregatedPath, genI>>

VARIABLES
  \* main of the older driver: terms, totalSize and *outputFile; numParts and
  \* parts of the split; the index i of the loop that generates the parts,
  \* the (outputPath, partTitle, terms) of every GenerateEPUB call made, and
  \* the statement main is at
  spTerms, totalSize, outputFile, numParts, spParts, partI, outputs, pcSplit

splitVars == <<spTerms, totalSize, outputFile, numParts, spParts, partI, outputs, pcSplit>>

vars == <<aggVars, poolVars, epubVars, readerVars, recVars, chapVars, memVars, splitVars>>

Passes == {"collect", "stream"}

NotReturned == [state |-> "none", err |-> "", metas |-> <<>>]
Returned(err, ms) == [state |-> IF err = "" THEN "ok" ELSE "err", err |-> err, metas |-> ms]

(***************************************************************************)
(* The documents the passes are run on: an object with an optional         *)
(* "timestamp" before and an optional "totalTerms" after the `terms`       *)
(* member; `terms` is absent, an object of entries, an array, a scalar or  *)
(* an invalid character.                                                   *)
(***************************************************************************)
Entries ==
  { Entry("a", "obj", ABSENT, ABSENT), Entry("b", "obj", ABSENT, ABSENT),
    Entry("a", "obj", "b", ABSENT),    Entry("a", "obj", ABSENT, "1"),
    Entry("b", "obj", ABSENT, "1"),    Entry("a", "null", ABSENT, ABSENT),
    Entry("a", "str", ABSENT, ABSENT), Entry("a", "bad", ABSENT, ABSENT),
    Entry("", "badkey", ABSENT, ABSENT),
    Entry("a", "obj", ABSENT, "1.0"),  Entry("a", "obj", "", ABSENT) }

SeqsUpTo(S, n) == UNION {[1..m -> S] : m \in 0..n}

TermsVals ==
  {NoTerms}
  \cup {TermsVal("scalar", t, <<>>) : t \in {Str("x"), Num("1"), True, Null, Bad}}
  \cup {TermsVal("arr", Null, es) : es \in {<<>>, <<Entry("a", "obj", ABSENT, ABSENT)>>}}
  \cup {TermsVal("obj", Null, es) : es \in SeqsUpTo(Entries, MaxEntries)}

Docs ==
  [pre : {<<>>, <<Member("timestamp", Str("t"))>>, <<Member("timestamp", Str("terms"))>>,
          <<Member("timestamp", Bad)>>},
   terms : TermsVals,
   post : {<<>>, <<Member("totalTerms", Num("1"))>>}]

\* the tokens of the file
docToks == Tokens(input)

(***************************************************************************)
(* The caller: CollectAggregatedMetadata, then StreamAggregatedTerms, on   *)
(* the same file.                                                          *)
(***************************************************************************)
\* an entry of the archive as writer.Create(name) makes it: its name, for a
\* chapter its number, and the compression method, which Create sets to
\* Deflate (a stored entry takes CreateHeader with Method: Store)
ZipEntry(name, n) == [name |-> name, n |-> n, method |-> "Deflate"]

\* writeContainerXML, writeContentOPF_FromMetas, writeTOC_FromMetas,
\* writeTitlePage
FrontMatter ==
  <<ZipEntry("META-INF/container.xml", 0), ZipEntry("OEBPS/content.opf", 0),
    ZipEntry("OEBPS/toc.ncx", 0), ZipEntry("OEBPS/title.xhtml", 0)>>

GenNotReturned == [state |-> "none", err |-> ""]

\* terms of the slice GenerateEPUB is given
MaxTerms == 2

\* the slices main passes to GenerateEPUB: what ReadTermFiles returned for
\* several files, not empty and sorted by SearchTerm
TermLists ==
  {ts \in SeqsUpTo({TermData("a", 0, 0), TermData("a", 1, 0), TermData("b", 1, 1)},
                   MaxTerms) :
     ts # <<>> /\ ts = SortBySearchTerm(ts)}

\* no term record at hand
RecIdle ==
  /\ rec = <<>>
  /\ recPath = "none"
  /\ recTerm = <<>>
  /\ recShown = <<>>

\* no run of the older driver
SplitIdle ==
  /\ spTerms = <<>>
  /\ totalSize = 0
  /\ outputFile = <<>>
  /\ numParts = 0
  /\ spParts = <<>>
  /\ partI = 0
  /\ outputs = <<>>
  /\ pcSplit = "none"

\* no call of GenerateEPUB
MemIdle ==
  /\ genTerms = <<>>
  /\ aggregatedPath = ""
  /\ genI = 0

\* no TermData being rendered
ChapIdle ==
  /\ chTerm = <<>>
  /\ chapters = <<>>
  /\ pages = <<>>

\* no countingReader in use
ReaderIdle ==
  /\ crTotal = 0
  /\ crRead = 0
  /\ srcLeft = 0
  /\ pcRead = "none"
  /\ got = <<>>
  /\ reads = <<>>
  /\ polled = <<>>

\* no run of ReadTermFiles
PoolIdle ==
  /\ files = <<>>
  /\ workerCount = 1
  /\ pcMain = "idle"
  /\ numWorkers = 0
  /\ terms = <<>>
  /\ processed = 0
  /\ readRet = [state |-> "none", terms |-> <<>>, aggregated |-> 0]
  /\ pcProd = "none"
  /\ next = 1
  /\ inClosed = FALSE
  /\ outClosed = FALSE
  /\ pcW = <<>>
  /\ wFile = <<>>
  /\ wTerm = <<>>
  /\ takenBy = <<>>
  /\ decoded = {}
  /\ received = <<>>

InitAgg ==
  /\ PoolIdle
  /\ SplitIdle
  /\ ChapIdle
  /\ ReaderIdle
  /\ RecIdle
  /\ \/ /\ input \in Docs
        /\ caller \in {"passes", "GenerateEPUB"}
        /\ aggregatedPath = "agg.json"
        /\ genTerms = <<>>
     \/ /\ input = [pre |-> <<>>, terms |-> NoTerms, post |-> <<>>]
        /\ caller = "GenerateEPUB"
        /\ aggregatedPath = ""
        /\ genTerms \in TermLists
  /\ genI = 0
  /\ archive = <<>>
  /\ genRet = GenNotReturned
  /\ pass = IF caller = "GenerateEPUB" THEN "create" ELSE "collect"
  /\ pc = "open"
  /\ dec = NewDecoder
  /\ keyStr = ""
  /\ held = <<>>
  /\ metas = <<>>
  /\ idx = 0
  /\ collectRet = NotReturned
  /\ streamRet = NotReturned
  /\ calls = <<>>
  /\ stopCloses = [p \in Passes |-> 0]
  /\ ticker = [p \in Passes |-> "none"]
  /\ printed = [p \in Passes |-> FALSE]

\* close(stop) of pass p
CloseStop(p) == stopCloses' = [stopCloses EXCEPT ![p] = @ + 1]

\* CollectAggregatedMetadata returns (ms, err); the caller goes on to the
\* second pass.  The decoder of the first pass is left where it stopped:
\* nothing refers to it any more.
CollectReturn(err, ms) ==
  /\ collectRet' = Returned(err, ms)
  /\ IF caller = "GenerateEPUB"
     THEN IF err # ""
          THEN pass' = "end" /\ genRet' = [state |-> "err", err |-> err]
          ELSE pass' = "front" /\ UNCHANGED genRet
     ELSE pass' = "stream" /\ UNCHANGED genRet
  /\ UNCHANGED <<caller, archive>>
  /\ pc' = "open"
  /\ dec' = dec
  /\ keyStr' = ""
  /\ held' = <<>>
  /\ metas' = <<>>

\* StreamAggregatedTerms returns err
StreamReturn(err) ==
  /\ streamRet' = Returned(err, <<>>)
  /\ IF caller = "GenerateEPUB"
     THEN IF err # ""
          THEN pass' = "end" /\ genRet' = [state |-> "err", err |-> err]
          ELSE pass' = "finish" /\ UNCHANGED genRet
     ELSE pass' = "end" /\ UNCHANGED genRet
  /\ UNCHANGED caller
  /\ pc' = "returned"
  /\ dec' = NewDecoder
  /\ keyStr' = ""
  /\ held' = <<>>
  /\ idx' = 0

(***************************************************************************)
(* CollectAggregatedMetadata                                               *)
(***************************************************************************)
\* open the file, make the decoder, start the progress goroutine
CollectOpen ==
  /\ pass = "collect" /\ pc = "open"
  /\ dec' = NewDecoder
  /\ ticker' = [ticker EXCEPT !["collect"] = "running"]
  /\ metas' = <<>>
  /\ pc' = "scan"
  /\ UNCHANGED <<poolVars, readerVars, splitVars, memVars, chapVars, recVars, epubVars, input, pass, keyStr, held, idx, collectRet, streamRet, calls,
                 stopCloses, printed>>

\* tok, err := dec.Token() of the outer loop
CollectScan ==
  /\ pass = "collect" /\ pc = "scan"
  /\ LET r == DecToken(docToks, dec)
     IN  IF r.err = "EOF"
         THEN /\ pc' = "sort"
              /\ dec' = r.d
              /\ UNCHANGED <<epubVars, pass, keyStr, held, metas, collectRet, stopCloses>>
         ELSE IF r.err # ""
         THEN /\ CloseStop("collect")
              /\ CollectReturn("json token error", <<>>)
         ELSE /\ pc' = IF r.tok.t = "str" /\ r.tok.v = "terms" THEN "expect" ELSE "scan"
              /\ dec' = r.d
              /\ UNCHANGED <<epubVars, pass, keyStr, held, metas, collectRet, stopCloses>>
  /\ UNCHANGED <<poolVars, readerVars, splitVars, memVars, chapVars, recVars, input, idx, streamRet, calls, ticker, printed>>

\* the token after "terms"
CollectExpect ==
  /\ pass = "collect" /\ pc = "expect"
  /\ LET r == DecToken(docToks, dec)
     IN  IF r.err # ""
         THEN /\ CloseStop("collect")
              /\ CollectReturn("malformed aggregated JSON", <<>>)
         ELSE /\ pc' = "more"
              /\ dec' = r.d
              /\ UNCHANGED <<epubVars, pass, keyStr, held, metas, collectRet, stopCloses>>
  /\ UNCHANGED <<poolVars, readerVars, splitVars, memVars, chapVars, recVars, input, idx, streamRet, calls, ticker, printed>>

\* for dec.More(); after the loop close(stop) and break
CollectMore ==
  /\ pass = "collect" /\ pc = "more"
  /\ IF DecMore(docToks, dec)
     THEN /\ pc' = "key"
          /\ UNCHANGED stopCloses
     ELSE /\ pc' = "sort"
          /\ CloseStop("collect")
  /\ UNCHANGED <<poolVars, readerVars, splitVars, memVars, chapVars, recVars, epubVars, input, pass, dec, keyStr, held, metas, idx, collectRet, streamRet,
                 calls, ticker, printed>>

\* kTok, err := dec.Token(); keyStr
CollectKey ==
  /\ pass = "collect" /\ pc = "key"
  /\ LET r == DecToken(docToks, dec)
     IN  IF r.err # ""
         THEN /\ CloseStop("collect")
              /\ CollectReturn("token error", <<>>)
         ELSE /\ pc' = "decode"
              /\ dec' = r.d
              /\ keyStr' = IF r.tok.t = "str" THEN r.tok.v ELSE ""
              /\ UNCHANGED <<epubVars, pass, held, metas, collectRet, stopCloses>>
  /\ UNCHANGED <<poolVars, readerVars, splitVars, memVars, chapVars, recVars, input, idx, streamRet, calls, ticker, printed>>

\* CollectDecode dropping the entries that carry no searchTerm of their own
CollectDecode_DropsUnnamed ==
  /\ pass = "collect" /\ pc = "decode"
  /\ LET r == DecDecode(docToks, dec)
         small == UnmarshalSmall(docToks, r.from)
     IN  IF r.err # "" \/ small.err
         THEN /\ CollectReturn("decode term", <<>>)
         ELSE /\ metas' = IF small.SearchTerm = "" THEN metas
                         ELSE Append(metas,
                                TermMeta(small.SearchTerm,
                                         small.DefinitionsCount, small.RelatedTermsCount))
              /\ dec' = r.d
              /\ pc' = "more"
              /\ UNCHANGED <<epubVars, pass, keyStr, held, collectRet>>
  /\ UNCHANGED <<poolVars, readerVars, splitVars, memVars, chapVars, recVars, input, idx, streamRet, calls, stopCloses, ticker, printed>>

\* dec.Decode(&small); the key falls back to keyStr; append to metas
CollectDecode ==
  /\ pass = "collect" /\ pc = "decode"
  /\ LET r == DecDecode(docToks, dec)
         small == UnmarshalSmall(docToks, r.from)
     IN  IF r.err # "" \/ small.err
         THEN /\ CollectReturn("decode term", <<>>)
         ELSE /\ metas' = Append(metas,
                    TermMeta(IF small.SearchTerm = "" THEN keyStr ELSE small.SearchTerm,
                             small.DefinitionsCount, small.RelatedTermsCount))
              /\ dec' = r.d
              /\ pc' = "more"
              /\ UNCHANGED <<epubVars, pass, keyStr, held, collectRet>>
  /\ UNCHANGED <<poolVars, readerVars, splitVars, memVars, chapVars, recVars, input, idx, streamRet, calls, stopCloses, ticker, printed>>

\* CollectSort closing stop once more before it returns
CollectSort_ClosesStop ==
  /\ pass = "collect" /\ pc = "sort"
  /\ CloseStop("collect")
  /\ CollectReturn("", SortBySearchTerm(metas))
  /\ UNCHANGED <<poolVars, readerVars, splitVars, memVars, chapVars, recVars, input, idx, streamRet, calls, ticker, printed>>

\* sort metas; return metas, nil
CollectSort ==
  /\ pass = "collect" /\ pc = "sort"
  /\ CollectReturn("", SortBySearchTerm(metas))
  /\ UNCHANGED <<poolVars, readerVars, splitVars, memVars, chapVars, recVars, input, idx, streamRet, calls, stopCloses, ticker, printed>>

(***************************************************************************)
(* StreamAggregatedTerms                                                   *)
(***************************************************************************)
\* StreamOpen reading on with the decoder of the first pass
StreamOpen_SharesDecoder ==
  /\ pass = "stream" /\ pc = "open"
  /\ dec' = dec
  /\ ticker' = [ticker EXCEPT !["stream"] = "running"]
  /\ idx' = 0
  /\ pc' = "scan"
  /\ UNCHANGED <<poolVars, readerVars, splitVars, memVars, chapVars, recVars, epubVars, input, pass, keyStr, held, metas, collectRet, streamRet, calls,
                 stopCloses, printed>>


\* os.Open, a new countingReader and a new json.Decoder on it, the progress
\* goroutine, idx := 0
StreamOpen ==
  /\ pass = "stream" /\ pc = "open"
  /\ dec' = NewDecoder
  /\ ticker' = [ticker EXCEPT !["stream"] = "running"]
  /\ idx' = 0
  /\ pc' = "scan"
  /\ UNCHANGED <<poolVars, readerVars, splitVars, memVars, chapVars, recVars, epubVars, input, pass, keyStr, held, metas, collectRet, streamRet, calls,
                 stopCloses, printed>>

StreamScan ==
  /\ pass = "stream" /\ pc = "scan"
  /\ LET r == DecToken(docToks, dec)
     IN  IF r.err = "EOF"
         THEN /\ StreamReturn("")
              /\ UNCHANGED stopCloses
         ELSE IF r.err # ""
         THEN /\ CloseStop("stream")
              /\ StreamReturn("json token error")
         ELSE /\ pc' = IF r.tok.t = "str" /\ r.tok.v = "terms" THEN "expect" ELSE "scan"
              /\ dec' = r.d
              /\ UNCHANGED <<caller, genRet, pass, keyStr, held, idx, streamRet, stopCloses>>
  /\ UNCHANGED <<poolVars, readerVars, splitVars, memVars, chapVars, recVars, archive, input, metas, collectRet, calls, ticker, printed>>

StreamExpect ==
  /\ pass = "stream" /\ pc = "expect"
  /\ LET r == DecToken(docToks, dec)
     IN  IF r.err # ""
         THEN /\ CloseStop("stream")
              /\ StreamReturn("malformed aggregated JSON")
         ELSE /\ pc' = "more"
              /\ dec' = r.d
              /\ UNCHANGED <<caller, genRet, pass, keyStr, held, idx, streamRet, stopCloses>>
  /\ UNCHANGED <<poolVars, readerVars, splitVars, memVars, chapVars, recVars, archive, input, metas, collectRet, calls, ticker, printed>>

\* for dec.More(); after the loop close(stop), break and return nil
StreamMore ==
  /\ pass = "stream" /\ pc = "more"
  /\ IF DecMore(docToks, dec)
     THEN /\ pc' = "key"
          /\ UNCHANGED <<caller, genRet, pass, dec, keyStr, held, idx, streamRet, stopCloses>>
     ELSE /\ CloseStop("stream")
          /\ StreamReturn("")
  /\ UNCHANGED <<poolVars, readerVars, splitVars, memVars, chapVars, recVars, archive, input, metas, collectRet, calls, ticker, printed>>

StreamKey ==
  /\ pass = "stream" /\ pc = "key"
  /\ LET r == DecToken(docToks, dec)
     IN  IF r.err # ""
         THEN /\ CloseStop("stream")
              /\ StreamReturn("token error")
         ELSE /\ pc' = "decode"
              /\ dec' = r.d
              /\ keyStr' = IF r.tok.t = "str" THEN r.tok.v ELSE ""
              /\ UNCHANGED <<caller, genRet, pass, held, idx, streamRet, stopCloses>>
  /\ UNCHANGED <<poolVars, readerVars, splitVars, memVars, chapVars, recVars, archive, input, metas, collectRet, calls, ticker, printed>>

\* StreamDecode going on to the next entry with the record still held and
\* the callback not called
StreamDecode_SkipsCallback ==
  /\ pass = "stream" /\ pc = "decode"
  /\ LET r == DecDecode(docToks, dec)
         raw == UnmarshalMap(docToks, r.from)
     IN  IF r.err # "" \/ raw.err
         THEN /\ CloseStop("stream")
              /\ StreamReturn("decode term")
         ELSE /\ held' = <<BuildTermData(docToks, raw.ms, keyStr)>>
              /\ dec' = r.d
              /\ pc' = "more"
              /\ UNCHANGED <<caller, genRet, pass, keyStr, idx, streamRet, stopCloses>>
  /\ UNCHANGED <<poolVars, readerVars, splitVars, memVars, chapVars, recVars, archive, input, metas, collectRet, calls, ticker, printed>>

\* dec.Decode(&rawTerm) and the TermData t built from it
StreamDecode ==
  /\ pass = "stream" /\ pc = "decode"
  /\ LET r == DecDecode(docToks, dec)
         raw == UnmarshalMap(docToks, r.from)
     IN  IF r.err # "" \/ raw.err
         THEN /\ CloseStop("stream")
              /\ StreamReturn("decode term")
         ELSE /\ held' = <<BuildTermData(docToks, raw.ms, keyStr)>>
              /\ dec' = r.d
              /\ pc' = "callback"
              /\ UNCHANGED <<caller, genRet, pass, keyStr, idx, streamRet, stopCloses>>
  /\ UNCHANGED <<poolVars, readerVars, splitVars, memVars, chapVars, recVars, archive, input, metas, collectRet, calls, ticker, printed>>

\* what fn can do.  Called by GenerateEPUB, fn is the closure that creates
\* the chapter entry and writes the chapter: writer.Create or io.WriteString
\* may fail.  Called on its own, fn is any callback: it returns nil or an error.
FnOutcomes ==
  IF caller = "GenerateEPUB" THEN {"ok", "createErr", "writeErr"} ELSE {"ok", "err"}

\* StreamCallback going on to the next entry whatever fn returned
StreamCallback_IgnoresError ==
  /\ pass = "stream" /\ pc = "callback"
  /\ \E out \in FnOutcomes :
       /\ calls' = Append(calls, [idx |-> idx, term |-> held[1], ret |-> out])
       /\ archive' = IF caller = "GenerateEPUB" /\ out # "createErr"
                     THEN Append(archive, ZipEntry("OEBPS/chapter.xhtml", idx + 1))
                     ELSE archive
       /\ idx' = idx + 1
       /\ held' = <<>>
       /\ pc' = "more"
       /\ UNCHANGED <<caller, genRet, pass, dec, keyStr, streamRet, stopCloses>>
  /\ UNCHANGED <<poolVars, readerVars, splitVars, memVars, chapVars, recVars, input, metas, collectRet, ticker, printed>>

\* if err := fn(idx, t); err != nil { close(stop); return err }; idx++
StreamCallback ==
  /\ pass = "stream" /\ pc = "callback"
  /\ \E out \in FnOutcomes :
       /\ calls' = Append(calls, [idx |-> idx, term |-> held[1], ret |-> out])
       /\ archive' = IF caller = "GenerateEPUB" /\ out # "createErr"
                     THEN Append(archive, ZipEntry("OEBPS/chapter.xhtml", idx + 1))
                     ELSE archive
       /\ IF out # "ok"
          THEN /\ CloseStop("stream")
               /\ StreamReturn("callback error")
          ELSE /\ idx' = idx + 1
               /\ held' = <<>>
               /\ pc' = "more"
               /\ UNCHANGED <<caller, genRet, pass, dec, keyStr, streamRet, stopCloses>>
  /\ UNCHANGED <<poolVars, readerVars, splitVars, memVars, chapVars, recVars, input, metas, collectRet, ticker, printed>>

(***************************************************************************)
(* The progress goroutine of pass p: select on the ticker and on stop.     *)
(***************************************************************************)
\* case <-t.C: print a progress line
TickerTick(p) ==
  /\ ticker[p] = "running"
  /\ printed' = [printed EXCEPT ![p] = TRUE]
  /\ UNCHANGED <<poolVars, readerVars, splitVars, memVars, chapVars, recVars, epubVars, input, pass, pc, dec, keyStr, held, metas, idx, collectRet, streamRet,
                 calls, stopCloses, ticker>>

\* case <-stop: return
TickerStop(p) ==
  /\ ticker[p] = "running"
  /\ stopCloses[p] > 0
  /\ ticker' = [ticker EXCEPT ![p] = "exited"]
  /\ UNCHANGED <<poolVars, readerVars, splitVars, memVars, chapVars, recVars, epubVars, input, pass, pc, dec, keyStr, held, metas, idx, collectRet, streamRet,
                 calls, stopCloses, printed>>

(***************************************************************************)
(* GenerateEPUB on an aggregated file.                                     *)
(***************************************************************************)
\* os.Create, zip.NewWriter, the mimetype entry; then the first pass
GenerateEPUBStart ==
  /\ caller = "GenerateEPUB" /\ pass = "create"
  /\ archive' = Append(archive, ZipEntry("mimetype", 0))
  /\ pass' = IF aggregatedPath # "" THEN "collect" ELSE "front"
  /\ UNCHANGED <<poolVars, readerVars, splitVars, memVars, chapVars, recVars, caller, genRet, input, pc, dec, keyStr, held, metas, idx,
                 collectRet, streamRet, calls, stopCloses, ticker, printed>>

\* the container, the package document, the TOC and the title page, written
\* from the metas of the first pass; then the second pass
GenerateEPUBFront ==
  /\ caller = "GenerateEPUB" /\ pass = "front"
  /\ archive' = archive \o FrontMatter
  /\ pass' = IF aggregatedPath # "" THEN "stream" ELSE "chapters"
  /\ UNCHANGED <<poolVars, readerVars, splitVars, memVars, chapVars, recVars, caller, genRet, input, pc, dec, keyStr, held, metas, idx,
                 collectRet, streamRet, calls, stopCloses, ticker, printed>>

\* embedFont (the font file is found or not; not found is only a warning),
\* writeStyle, return nil
GenerateEPUBFinish ==
  /\ caller = "GenerateEPUB" /\ pass = "finish"
  /\ \E fontFound \in BOOLEAN :
       archive' = archive
                  \o (IF fontFound THEN <<ZipEntry("OEBPS/fonts/DDC_Uchen-webfont.woff", 0)>>
                      ELSE <<>>)
                  \o <<ZipEntry("OEBPS/style.css", 0)>>
  /\ genRet' = [state |-> "ok", err |-> ""]
  /\ pass' = "end"
  /\ UNCHANGED <<poolVars, readerVars, splitVars, memVars, chapVars, recVars, caller, input, pc, dec, keyStr, held, metas, idx,
                 collectRet, streamRet, calls, stopCloses, ticker, printed>>

\* GenerateEPUBChapter naming the chapter by the index i, not by i+1
GenerateEPUBChapter_NamesByIndex ==
  /\ caller = "GenerateEPUB" /\ pass = "chapters"
  /\ \E out \in {"ok", "createErr", "writeErr"} :
       /\ archive' = IF out # "createErr"
                     THEN Append(archive, ZipEntry("OEBPS/chapter.xhtml", genI))
                     ELSE archive
       /\ IF out # "ok"
          THEN /\ genRet' = [state |-> "err", err |-> "chapter error"]
               /\ pass' = "end"
               /\ UNCHANGED genI
          ELSE /\ genI' = genI + 1
               /\ pass' = IF genI + 1 = Len(genTerms) THEN "finish" ELSE "chapters"
               /\ UNCHANGED genRet
  /\ UNCHANGED <<poolVars, readerVars, splitVars, recVars, chapVars, caller, genTerms, aggregatedPath,
                 input, pc, dec, keyStr, held, metas, idx, collectRet, streamRet, calls,
                 stopCloses, ticker, printed>>

\* the in-memory path: one turn of `for i, term := range terms`, and the end
\* of the loop after the last term
GenerateEPUBChapter ==
  /\ caller = "GenerateEPUB" /\ pass = "chapters"
  /\ \E out \in {"ok", "createErr", "writeErr"} :
       /\ archive' = IF out # "createErr"
                     THEN Append(archive, ZipEntry("OEBPS/chapter.xhtml", genI + 1))
                     ELSE archive
       /\ IF out # "ok"
          THEN /\ genRet' = [state |-> "err", err |-> "chapter error"]
               /\ pass' = "end"
               /\ UNCHANGED genI
          ELSE /\ genI' = genI + 1
               /\ pass' = IF genI + 1 = Len(genTerms) THEN "finish" ELSE "chapters"
               /\ UNCHANGED genRet
  /\ UNCHANGED <<poolVars, readerVars, splitVars, recVars, chapVars, caller, genTerms, aggregatedPath,
                 input, pc, dec, keyStr, held, metas, idx, collectRet, streamRet, calls,
                 stopCloses, ticker, printed>>

NextAgg ==
  \/ GenerateEPUBStart \/ GenerateEPUBFront \/ GenerateEPUBChapter \/ GenerateEPUBFinish
  \/ CollectOpen \/ CollectScan \/ CollectExpect \/ CollectMore
  \/ CollectKey \/ CollectDecode \/ CollectSort
  \/ StreamOpen \/ StreamScan \/ StreamExpect \/ StreamMore
  \/ StreamKey \/ StreamDecode \/ StreamCallback
  \/ \E p \in Passes : TickerTick(p) \/ TickerStop(p)

SpecAgg == InitAgg /\ [][NextAgg]_vars

(***************************************************************************)
(* What the claims say of a document, read off the document itself.        *)
(***************************************************************************)
\* no invalid character anywhere in the document
WellFormed(d) ==
  /\ \A i \in 1..Len(d.pre) : d.pre[i].v # Bad
  /\ d.terms.tok # Bad
  /\ \A i \in 1..Len(d.terms.entries) : d.terms.entries[i].kind \in {"obj", "null", "str"}

\* the (key, definitionsCount, relatedTermsCount) of entry e of the terms map
EntryTriple(e) ==
  TermMeta(IF e.st \in {ABSENT, ""} THEN e.key ELSE e.st,
           IF e.dc = ABSENT THEN 0 ELSE NumInt(e.dc),
           0)

\* the triples of the entries of the terms map, in stream order
StreamOrderTriples(d) ==
  [i \in 1..Len(d.terms.entries) |-> EntryTriple(d.terms.entries[i])]

Count(s, x) == Cardinality({i \in 1..Len(s) : s[i] = x})

IsPermutation(s, t) ==
  /\ Len(s) = Len(t)
  /\ \A i \in 1..Len(s) : Count(s, s[i]) = Count(t, s[i])

SortedByTerm(s) ==
  \A i, j \in 1..Len(s) : i < j => ~StrLess(s[j].SearchTerm, s[i].SearchTerm)

BothPassesOk == pass = "end" /\ collectRet.state = "ok" /\ streamRet.state = "ok"

(***************************************************************************)
(* Claims on the aggregate path (specification SpecAgg).                   *)
(***************************************************************************)
\* C1: when both passes succeed, the key of the i-th TermMeta returned by
\* CollectAggregatedMetadata is the SearchTerm of the record the callback of
\* StreamAggregatedTerms got with idx = i, for every order of the keys of
\* the terms map.
C1_IndexCongruence ==
  BothPassesOk =>
    \A i \in 1..Len(calls) :
      /\ calls[i].idx = i - 1
      /\ i <= Len(collectRet.metas)
      /\ collectRet.metas[i].SearchTerm = calls[i].term.SearchTerm

\* C5: on every return path of either pass the progress goroutine started by
\* the call has been signalled to stop.
C5_TickerSignalled ==
  /\ collectRet.state # "none" => stopCloses["collect"] > 0
  /\ streamRet.state # "none" => stopCloses["stream"] > 0

\* C6: when the token after the field name `terms` is an array, a string, a
\* number, a boolean or null, both passes fail with the "malformed aggregated
\* JSON" error and yield no entries.
C6_MalformedTerms ==
  (/\ input.pre \in {<<>>, <<Member("timestamp", Str("t"))>>}
   /\ input.terms.kind \in {"arr", "scalar"}
   /\ input.terms.tok # Bad)
  => /\ collectRet.state # "none" =>
          collectRet.err = "malformed aggregated JSON" /\ collectRet.metas = <<>>
     /\ streamRet.state # "none" =>
          streamRet.err = "malformed aggregated JSON" /\ calls = <<>>

\* C7: for a well-formed document with no `terms` field, the metadata pass
\* returns an empty sequence and a nil error, and the streaming pass returns
\* nil without calling the callback.
C7_AbsentTerms ==
  (WellFormed(input) /\ input.terms.kind = "absent")
  => /\ collectRet.state # "none" => collectRet.state = "ok" /\ collectRet.metas = <<>>
     /\ calls = <<>>
     /\ streamRet.state # "none" => streamRet.state = "ok"

\* C8: for a document whose `terms` field is the empty object, the metadata
\* pass returns an empty sequence and a nil error, and the streaming pass
\* calls the callback zero times and returns nil.
C8_EmptyTerms ==
  (WellFormed(input) /\ input.terms.kind = "obj" /\ input.terms.entries = <<>>)
  => /\ collectRet.state # "none" => collectRet.state = "ok" /\ collectRet.metas = <<>>
     /\ calls = <<>>
     /\ streamRet.state # "none" => streamRet.state = "ok"

\* C9: when both passes return without error, the metadata pass returned as
\* many entries as the streaming pass made callback calls.
C9_LengthAgreement ==
  BothPassesOk => Len(collectRet.metas) = Len(calls)

C9_Witness ==
  BothPassesOk /\ Len(calls) = MaxEntries /\ Len(collectRet.metas) = MaxEntries

File(kind, st, dc) == [kind |-> kind, st |-> st, dc |-> dc]

Files ==
  { File("unopenable", "", 0), File("undecodable", "", 0), File("record", "", 0),
    File("record", "a", 0), File("record", "a", 1), File("record", "b", 0) }

\* the values of the -workers flag
WorkerCounts == {0, 1, 2, 8}

\* os.Open(path)
OpenFails(f) == f.kind = "unopenable"

\* json.NewDecoder(f).Decode(&term)
DecodeTermFile(f) ==
  [err |-> f.kind # "record", term |-> TermData(f.st, f.dc, 0)]

\* no run of the aggregate passes
AggIdle ==
  /\ input = [pre |-> <<>>, terms |-> NoTerms, post |-> <<>>]
  /\ caller = "none"
  /\ archive = <<>>
  /\ genRet = GenNotReturned
  /\ pass = "end"
  /\ pc = "returned"
  /\ dec = NewDecoder
  /\ keyStr = ""
  /\ held = <<>>
  /\ metas = <<>>
  /\ idx = 0
  /\ collectRet = NotReturned
  /\ streamRet = NotReturned
  /\ calls = <<>>
  /\ stopCloses = [p \in Passes |-> 0]
  /\ ticker = [p \in Passes |-> "none"]
  /\ printed = [p \in Passes |-> FALSE]

InitPool ==
  /\ AggIdle
  /\ SplitIdle
  /\ MemIdle
  /\ ChapIdle
  /\ ReaderIdle
  /\ RecIdle
  /\ files \in SeqsUpTo(Files, MaxFiles)
  /\ workerCount \in WorkerCounts
  /\ pcMain = "start"
  /\ numWorkers = 0
  /\ terms = <<>>
  /\ processed = 0
  /\ readRet = [state |-> "none", terms |-> <<>>, aggregated |-> 0]
  /\ pcProd = "none"
  /\ next = 1
  /\ inClosed = FALSE
  /\ outClosed = FALSE
  /\ pcW = <<>>
  /\ wFile = <<>>
  /\ wTerm = <<>>
  /\ takenBy = [i \in 1..Len(files) |-> 0]
  /\ decoded = {}
  /\ received = <<>>

\* numWorkers not capped by the number of files
NumWorkers_Uncapped(wc, n) ==
  IF wc <= 0 THEN 1 ELSE wc

\* numWorkers: workerCount, at least 1 and at most n
NumWorkers(wc, n) ==
  LET atLeast1 == IF wc <= 0 THEN 1 ELSE wc
  IN  IF atLeast1 > n THEN n ELSE atLeast1

\* the directory is listed; no file is an error, one file is the aggregated
\* path, several start the workers and the feeding goroutine
ReadTermFilesStart ==
  /\ pcMain = "start"
  /\ LET n == Len(files)
     IN  IF n = 0
         THEN /\ readRet' = [state |-> "err", terms |-> <<>>, aggregated |-> 0]
              /\ pcMain' = "done"
              /\ UNCHANGED <<numWorkers, pcProd, pcW, wFile, wTerm>>
         ELSE IF n = 1
         THEN /\ readRet' = [state |-> "ok", terms |-> <<>>, aggregated |-> 1]
              /\ pcMain' = "done"
              /\ UNCHANGED <<numWorkers, pcProd, pcW, wFile, wTerm>>
         ELSE /\ numWorkers' = NumWorkers(workerCount, n)
              /\ pcW' = [w \in 1..NumWorkers(workerCount, n) |-> "recv"]
              /\ wFile' = [w \in 1..NumWorkers(workerCount, n) |-> 0]
              /\ wTerm' = [w \in 1..NumWorkers(workerCount, n) |-> TermData("", 0, 0)]
              /\ pcProd' = "send"
              /\ pcMain' = "range"
              /\ UNCHANGED readRet
  /\ UNCHANGED <<aggVars, epubVars, readerVars, splitVars, memVars, chapVars, recVars, files, workerCount, terms, processed, next, inClosed,
                 outClosed, takenBy, decoded, received>>

\* the check of SearchTerm left out
Decodes_KeepsUnnamed(f) ==
  ~OpenFails(f) /\ ~DecodeTermFile(f).err

\* what worker w does with file i: a record with a searchTerm is to be sent
\* on outCh; a file that cannot be opened or decoded, or whose searchTerm is
\* empty, is skipped
Decodes(f) ==
  ~OpenFails(f) /\ ~DecodeTermFile(f).err /\ DecodeTermFile(f).term.SearchTerm # ""

\* inCh <- p, taken by worker w at `for path := range inCh`; the worker opens
\* and decodes the file and is then at its send on outCh, or back at inCh
TakePath(w) ==
  /\ pcProd = "send" /\ next <= Len(files)
  /\ w \in DOMAIN pcW /\ pcW[w] = "recv"
  /\ next' = next + 1
  /\ takenBy' = [takenBy EXCEPT ![next] = @ + 1]
  /\ IF Decodes(files[next])
     THEN /\ wTerm' = [wTerm EXCEPT ![w] = DecodeTermFile(files[next]).term]
          /\ wFile' = [wFile EXCEPT ![w] = next]
          /\ pcW' = [pcW EXCEPT ![w] = "send"]
          /\ decoded' = decoded \cup {next}
     ELSE /\ UNCHANGED <<wTerm, wFile, pcW, decoded>>
  /\ UNCHANGED <<aggVars, epubVars, readerVars, splitVars, memVars, chapVars, recVars, files, workerCount, pcMain, numWorkers, terms, processed,
                 readRet, pcProd, inClosed, outClosed, received>>

\* the feeding goroutine going on to wg.Wait() with inCh left open
CloseIn_LeftOpen ==
  /\ pcProd = "send" /\ next > Len(files)
  /\ inClosed' = FALSE
  /\ pcProd' = "wait"
  /\ UNCHANGED <<aggVars, epubVars, readerVars, splitVars, memVars, chapVars, recVars, files, workerCount, pcMain, numWorkers, terms, processed,
                 readRet, next, outClosed, pcW, wFile, wTerm, takenBy, decoded, received>>

\* close(inCh) after the last path
CloseIn ==
  /\ pcProd = "send" /\ next > Len(files)
  /\ inClosed' = TRUE
  /\ pcProd' = "wait"
  /\ UNCHANGED <<aggVars, epubVars, readerVars, splitVars, memVars, chapVars, recVars, files, workerCount, pcMain, numWorkers, terms, processed,
                 readRet, next, outClosed, pcW, wFile, wTerm, takenBy, decoded, received>>

\* outCh <- res{term, true}, taken by `for r := range outCh`: processed++,
\* terms = append(terms, r.term); the worker closes the file and loops
SendResult(w) ==
  /\ w \in DOMAIN pcW /\ pcW[w] = "send"
  /\ pcMain = "range" /\ ~outClosed
  /\ terms' = Append(terms, wTerm[w])
  /\ processed' = processed + 1
  /\ received' = Append(received, wFile[w])
  /\ pcW' = [pcW EXCEPT ![w] = "recv"]
  /\ wFile' = [wFile EXCEPT ![w] = 0]
  /\ wTerm' = [wTerm EXCEPT ![w] = TermData("", 0, 0)]
  /\ UNCHANGED <<aggVars, epubVars, readerVars, splitVars, memVars, chapVars, recVars, files, workerCount, pcMain, numWorkers, readRet, pcProd,
                 next, inClosed, outClosed, takenBy, decoded>>

\* worker w: inCh is closed, the range loop ends, wg.Done()
WorkerExit(w) ==
  /\ w \in DOMAIN pcW /\ pcW[w] = "recv"
  /\ inClosed
  /\ pcW' = [pcW EXCEPT ![w] = "done"]
  /\ UNCHANGED <<aggVars, epubVars, readerVars, splitVars, memVars, chapVars, recVars, files, workerCount, pcMain, numWorkers, terms, processed,
                 readRet, pcProd, next, inClosed, outClosed, wFile, wTerm, takenBy,
                 decoded, received>>

\* no wait for the workers
WaitGroupDone_NoWait == TRUE

\* wg.Wait() returns
WaitGroupDone == \A w \in DOMAIN pcW : pcW[w] = "done"

\* wg.Wait(); close(outCh)
CloseOut ==
  /\ pcProd = "wait"
  /\ WaitGroupDone
  /\ outClosed' = TRUE
  /\ pcProd' = "done"
  /\ UNCHANGED <<aggVars, epubVars, readerVars, splitVars, memVars, chapVars, recVars, files, workerCount, pcMain, numWorkers, terms, processed,
                 readRet, next, inClosed, pcW, wFile, wTerm, takenBy, decoded, received>>

\* outCh is closed, the collection loop ends: no term is an error, else
\* the terms are sorted and returned
ReadTermFilesReturn ==
  /\ pcMain = "range"
  /\ outClosed
  /\ readRet' = IF Len(terms) = 0
                THEN [state |-> "err", terms |-> <<>>, aggregated |-> 0]
                ELSE [state |-> "ok", terms |-> SortBySearchTerm(terms), aggregated |-> 0]
  /\ pcMain' = "done"
  /\ UNCHANGED <<aggVars, epubVars, readerVars, splitVars, memVars, chapVars, recVars, files, workerCount, numWorkers, terms, processed, pcProd,
                 next, inClosed, outClosed, pcW, wFile, wTerm, takenBy, decoded, received>>

\* main going on to the streaming path whatever ReadTermFiles returned
MainDispatch_AlwaysAggregated ==
  /\ pcMain = "done"
  /\ pcMain' = IF readRet.state = "err" THEN "exit1" ELSE "genAggregated"
  /\ UNCHANGED <<aggVars, epubVars, readerVars, splitVars, memVars, chapVars, recVars, files, workerCount, numWorkers, terms, processed,
                 readRet, pcProd, next, inClosed, outClosed, pcW, wFile, wTerm,
                 takenBy, decoded, received>>

\* main: exit on an error of ReadTermFiles; GenerateEPUB(nil, aggPath) when
\* aggPath is not empty, else GenerateEPUB(terms, "")
MainDispatch ==
  /\ pcMain = "done"
  /\ pcMain' = IF readRet.state = "err" THEN "exit1"
               ELSE IF readRet.aggregated # 0 THEN "genAggregated"
               ELSE "genMemory"
  /\ UNCHANGED <<aggVars, epubVars, readerVars, splitVars, memVars, chapVars, recVars, files, workerCount, numWorkers, terms, processed,
                 readRet, pcProd, next, inClosed, outClosed, pcW, wFile, wTerm,
                 takenBy, decoded, received>>

Workers == 1..MaxFiles

NextPool ==
  \/ ReadTermFilesStart
  \/ CloseIn
  \/ CloseOut
  \/ ReadTermFilesReturn
  \/ MainDispatch
  \/ \E w \in Workers : TakePath(w) \/ SendResult(w) \/ WorkerExit(w)

SpecPool == InitPool /\ [][NextPool]_vars

\* the scheduler runs some goroutine that can run
FairPool == WF_vars(NextPool)

SpecPoolFair == SpecPool /\ FairPool

(***************************************************************************)
(* Claims on the small-file path (specifications SpecPool, SpecPoolFair).  *)
(***************************************************************************)
Range(q) == {q[i] : i \in 1..Len(q)}

\* the records of the files that decode, in directory order: what one
\* worker sends
RecordsInOrder(fs) ==
  LET F[i \in 0..Len(fs)] ==
        IF i = 0 THEN <<>>
        ELSE IF Decodes(fs[i]) THEN Append(F[i - 1], DecodeTermFile(fs[i]).term)
        ELSE F[i - 1]
  IN  F[Len(fs)]

\* C2: the slice ReadTermFiles returns is the same for every worker count
\* and every interleaving (equal keys allowed): it is the one a single
\* worker gives, sorted ascending by SearchTerm.
C2_ScheduleIndependent ==
  (pcMain = "done" /\ readRet.state = "ok" /\ Len(files) > 1)
  => /\ readRet.terms = SortBySearchTerm(RecordsInOrder(files))
     /\ SortedByTerm(readRet.terms)

\* C3: each path sent is taken by exactly one worker, each record decoded
\* with success is received by the collector exactly once, and outCh is
\* closed only after every worker has finished, so no worker is at a send
\* on the closed channel.
C3_NoResultLostOrDuplicated ==
  /\ \A i \in 1..Len(files) : takenBy[i] = (IF i < next THEN 1 ELSE 0)
  /\ \A j, k \in 1..Len(received) : j # k => received[j] # received[k]
  /\ Range(received) \subseteq decoded
  /\ decoded \ Range(received) = {wFile[w] : w \in {v \in DOMAIN pcW : pcW[v] = "send"}}
  /\ Len(terms) = Len(received)
  /\ \A k \in 1..Len(received) : terms[k] = DecodeTermFile(files[received[k]]).term
  /\ outClosed => inClosed /\ \A w \in DOMAIN pcW : pcW[w] = "done"
  /\ (pcMain = "done" /\ Len(files) > 1)
       => Range(received) = {i \in 1..Len(files) : Decodes(files[i])}

\* a run with two workers in which two records were received and one file
\* was skipped
C3_Witness ==
  /\ pcMain = "done"
  /\ numWorkers >= 2
  /\ Len(received) = 2
  /\ Len(files) = 3
  /\ outClosed

\* C4: under fair scheduling ReadTermFiles returns; when there are several
\* files the work queue has been closed, every worker has exited and the
\* results channel has been closed.
C4_Terminates ==
  <>(/\ pcMain = "done"
     /\ Len(files) > 1 => inClosed /\ outClosed /\ pcProd = "done"
                          /\ \A w \in DOMAIN pcW : pcW[w] = "done")

\* the run in which every file fails, with several workers
C4_Witness ==
  /\ pcMain = "done"
  /\ Len(files) = MaxFiles
  /\ numWorkers >= 2
  /\ readRet.state = "err"
  /\ outClosed
  /\ \A w \in DOMAIN pcW : pcW[w] = "done"

(***************************************************************************)
(* Claims on GenerateEPUB and the decoding of entries (SpecAgg).           *)
(***************************************************************************)
\* dec.Decode(&rawTerm) of the entry at hand fails
StreamDecodeFails ==
  LET r == DecDecode(docToks, dec)
  IN  r.err # "" \/ UnmarshalMap(docToks, r.from).err

\* the chapter entries of the archive
Chapters(ar) == SelectSeq(ar, LAMBDA e : e.name = "OEBPS/chapter.xhtml")

\* C11: when decoding an entry fails or the callback returns an error for an
\* entry, StreamAggregatedTerms returns an error, the callback is not called
\* again, and GenerateEPUB returns that error and creates no further chapter,
\* no font entry and no stylesheet entry.
C11_FailFast ==
  /\ [](\A i \in 1..Len(calls) :
          calls[i].ret # "ok" => i = Len(calls) /\ streamRet.state = "err")
  /\ []((streamRet.state = "err" /\ caller = "GenerateEPUB")
          => /\ genRet = [state |-> "err", err |-> streamRet.err]
             /\ pass = "end"
             /\ Len(Chapters(archive)) <= Len(calls)
             /\ \A i \in 1..Len(archive) :
                  archive[i].name \notin {"OEBPS/fonts/DDC_Uchen-webfont.woff",
                                          "OEBPS/style.css"})
  /\ [][(pass = "stream" /\ pc = "decode" /\ StreamDecodeFails /\ pc' # pc)
          => streamRet'.state = "err" /\ calls' = calls /\ archive' = archive]_vars
  /\ [][streamRet.state = "err" => calls' = calls /\ archive' = archive]_vars

\* GenerateEPUB: the callback failed on the first of two entries after the
\* chapter entry was created
C11_Witness ==
  /\ caller = "GenerateEPUB"
  /\ Len(input.terms.entries) = 2
  /\ Len(calls) = 1
  /\ calls[1].ret = "writeErr"
  /\ genRet.state = "err"
  /\ Len(Chapters(archive)) = 1

(***************************************************************************)
(* Claims on the small-file path, continued (SpecPool).                    *)
(***************************************************************************)
\* the records of the files that hold a term record with a searchTerm, in
\* directory order, read off the directory
Survivors(fs) ==
  LET keep == SelectSeq(fs, LAMBDA f : f.kind = "record" /\ f.st # "")
  IN  [i \in 1..Len(keep) |-> TermData(keep[i].st, keep[i].dc, 0)]

\* C12: a file that cannot be opened, cannot be decoded or has an empty
\* searchTerm is skipped and the other files are still read; ReadTermFiles
\* returns an error exactly when no file survives, and otherwise exactly the
\* records of the surviving files.
C12_PerFileFailures ==
  (pcMain = "done" /\ Len(files) > 1)
  => /\ \A i \in 1..Len(files) : takenBy[i] = 1
     /\ readRet.state = "err" <=> Survivors(files) = <<>>
     /\ readRet.state = "ok" => IsPermutation(readRet.terms, Survivors(files))

\* a file that cannot be opened and a file without a searchTerm before the
\* one that survives
C12_Witness ==
  /\ pcMain = "done"
  /\ Len(files) = 3
  /\ files[1].kind = "unopenable"
  /\ files[2] = File("record", "", 0)
  /\ files[3].kind = "record"
  /\ readRet.state = "ok"
  /\ Len(readRet.terms) = 1

C14_WorkerPoolBound ==
  (Len(files) > 1 /\ pcMain # "start")
  => /\ numWorkers = (IF workerCount <= 0 THEN 1
                      ELSE IF workerCount < Len(files) THEN workerCount
                      ELSE Len(files))
     /\ DOMAIN pcW = 1..numWorkers
     /\ Cardinality({i \in 1..Len(files) :
                       takenBy[i] > 0 /\ i \in decoded /\ i \notin Range(received)})
          <= numWorkers
     /\ Cardinality({w \in DOMAIN pcW : pcW[w] = "send"}) <= numWorkers

\* eight workers asked for, three files: three workers, each holding a file
C14_Witness ==
  /\ workerCount = 8
  /\ Len(files) = 3
  /\ numWorkers = 3
  /\ \A w \in 1..3 : pcW[w] = "send"

(***************************************************************************)
(* countingReader over a source of srcLeft bytes.  One goroutine calls     *)
(* Read until the source reports io.EOF; another polls BytesRead().        *)
(***************************************************************************)
\* the size of the file, in bytes
MaxBytes == 3
\* the calls of BytesRead() by the polling goroutine
MaxPolls == 2

\* io.EOF or nil
EOF == "EOF"
NoErr == ""
\* any other error of the source
ErrIO == "read error"

\* cr := &countingReader{r: bufio.NewReader(f), total: fi.Size(), ...}
InitReader ==
  /\ AggIdle
  /\ PoolIdle
  /\ SplitIdle
  /\ MemIdle
  /\ ChapIdle
  /\ RecIdle
  /\ crTotal \in 0..MaxBytes
  /\ srcLeft = crTotal
  /\ crRead = 0
  /\ pcRead = "idle"
  /\ got = <<>>
  /\ reads = <<>>
  /\ polled = <<>>

\* n, err := cr.r.Read(p) with len(p) = size: the source delivers n bytes of
\* what it has left, and io.EOF at the earliest with its last byte, or it
\* fails with another error after n bytes.  The decoder reads on only after
\* a Read that returned no error.
ReadSource ==
  /\ pcRead = "idle"
  /\ IF reads = <<>> THEN TRUE ELSE reads[Len(reads)].err = NoErr
  /\ \E size \in 1..MaxBytes :
       \E n \in 0..(IF size < srcLeft THEN size ELSE srcLeft) :
         \E err \in {NoErr, EOF, ErrIO} :
           /\ err = EOF => n = srcLeft
           /\ n = 0 => ((srcLeft = 0 /\ err = EOF) \/ err = ErrIO)
           /\ srcLeft' = srcLeft - n
           /\ got' = <<[n |-> n, err |-> err]>>
  /\ pcRead' = "count"
  /\ UNCHANGED <<aggVars, poolVars, epubVars, recVars, splitVars, memVars, chapVars, crTotal, crRead, reads, polled>>

\* the locked section without the addition
ReadCount_NoAdd ==
  /\ pcRead = "count"
  /\ crRead' = IF got[1].err = EOF THEN crRead ELSE crRead + got[1].n
  /\ reads' = Append(reads, got[1])
  /\ got' = <<>>
  /\ pcRead' = "idle"
  /\ UNCHANGED <<aggVars, poolVars, epubVars, recVars, splitVars, memVars, chapVars, crTotal, srcLeft, polled>>

\* cr.mu.Lock(); cr.read += int64(n); cr.mu.Unlock(); return n, err
ReadCount ==
  /\ pcRead = "count"
  /\ crRead' = crRead + got[1].n
  /\ reads' = Append(reads, got[1])
  /\ got' = <<>>
  /\ pcRead' = "idle"
  /\ UNCHANGED <<aggVars, poolVars, epubVars, recVars, splitVars, memVars, chapVars, crTotal, srcLeft, polled>>

\* BytesRead(): the value of cr.read under the lock
BytesRead == crRead

\* Percent(): float64(r) / float64(cr.total) * 100.0 as the fraction
\* [num, den]; 0 when total <= 0
Percent ==
  IF crTotal <= 0 THEN [num |-> 0, den |-> 1]
  ELSE [num |-> crRead * 100, den |-> crTotal]

\* Poll taking cr.read without the lock, while Read may be writing it: the
\* value read is any value
Poll_Unlocked ==
  /\ pcRead \in {"idle", "count"}
  /\ Len(polled) < MaxPolls
  /\ \E v \in 0..crTotal : polled' = Append(polled, v)
  /\ UNCHANGED <<aggVars, poolVars, epubVars, recVars, splitVars, memVars, chapVars, crTotal, crRead, srcLeft, pcRead, got, reads>>

\* the progress goroutine calls cr.BytesRead()
Poll ==
  /\ pcRead \in {"idle", "count"}
  /\ Len(polled) < MaxPolls
  /\ polled' = Append(polled, BytesRead)
  /\ UNCHANGED <<aggVars, poolVars, epubVars, recVars, splitVars, memVars, chapVars, crTotal, crRead, srcLeft, pcRead, got, reads>>

NextReader == ReadSource \/ ReadCount \/ Poll

SpecReader == InitReader /\ [][NextReader]_vars

\* the source has reported io.EOF and that Read has returned
Drained == IF reads = <<>> THEN FALSE ELSE reads[Len(reads)].err = EOF

\* C15: for a source of total size T > 0, once Read has been called until
\* the source reported end of input, BytesRead() is T and Percent() is 100.
C15_DrainedCounter ==
  (Drained /\ crTotal > 0)
  => /\ BytesRead = crTotal
     /\ Percent.num = 100 * Percent.den

\* three bytes read in more than one Read, the last one with io.EOF
C15_Witness ==
  /\ Drained
  /\ crTotal = 3
  /\ Len(reads) >= 2
  /\ reads[Len(reads)].n > 0
  /\ BytesRead = 3

(***************************************************************************)
(* One term record and the decoders it can be given to: the map-based      *)
(* decoding of StreamAggregatedTerms, the struct decoding of the workers   *)
(* of ReadTermFiles, and ReadTermFiles of the older driver; then the       *)
(* rendering of the decoded record.  Of the three definitions mappings     *)
(* (definitions, definitionsWylie, definitionsUnicode), which the code     *)
(* decodes by the same statements, the model carries `definitions`.        *)
(***************************************************************************)
\* members of the `definitions` object of a record
MaxDefs == 1

\* a JSON value: absent, a string s, an object {"unicode": u, "wylie": w},
\* or an object with the members ms
JVal(t, s, u, w, ms) == [t |-> t, s |-> s, u |-> u, w |-> w, ms |-> ms]
JAbsent == JVal("absent", "", "", "", <<>>)
JStr(s) == JVal("str", s, "", "", <<>>)
JVariant(u, w) == JVal("variant", "", u, w, <<>>)
JObj(ms) == JVal("obj", "", "", "", ms)

\* a Go string as the sequence of its non-empty pieces
Text(s) == IF s = "" THEN <<>> ELSE <<s>>

\* fmt.Sprintf("%v", vv) for a value of a map[string]interface{}: a string
\* prints as itself, a map as map[key:value ...] with its keys sorted
SprintfV(v) ==
  IF v.t = "str" THEN Text(v.s)
  ELSE <<"map[unicode:">> \o Text(v.u) \o <<" wylie:">> \o Text(v.w) \o <<"]">>

\* the older driver's display string of a value with unicode and wylie
Composed(uni, w) ==
  IF uni # "" /\ w # "" THEN Text(uni) \o <<" (">> \o Text(w) \o <<")">>
  ELSE IF uni = "" THEN Text(w)
  ELSE Text(uni)

DictName == <<"s1", "s2", "s3">>
DefValues == {JStr("d"), JVariant("U", "W"), JVariant("U", ""), JVariant("", "W")}

\* the values of the `definitions` field
DefFields ==
  {JAbsent, JStr("d")}
  \cup {JObj([i \in 1..Len(vs) |-> [k |-> DictName[i], v |-> vs[i]]]) :
          vs \in SeqsUpTo(DefValues, MaxDefs)}

Rec(st, defs, rel, dc, rc) ==
  [searchTerm |-> st, definitions |-> defs, relatedTerms |-> rel,
   definitionsCount |-> dc, relatedTermsCount |-> rc]

RelatedTerm(w, u) == [Wylie |-> w, Unicode |-> u]

Recs ==
  {Rec(st, defs, rel, dc, rc) :
     st \in {JStr("a"), JVariant("U", "W")},
     defs \in DefFields,
     rel \in {<<>>, <<RelatedTerm("W", "U")>>},
     dc \in {0, 1}, rc \in {0, 1}}

\* a decoded TermData, or a record that was rejected
Decoded(st, defs, rel, dc, rc) ==
  [ok |-> TRUE, SearchTerm |-> st, Definitions |-> defs, RelatedTerms |-> rel,
   DefinitionsCount |-> dc, RelatedTermsCount |-> rc]
Rejected ==
  [ok |-> FALSE, SearchTerm |-> "", Definitions |-> <<>>, RelatedTerms |-> <<>>,
   DefinitionsCount |-> 0, RelatedTermsCount |-> 0]

\* the mapping with the keys of the members ms, each value given by f
MapOf(ms, f(_)) ==
  [k \in {ms[i].k : i \in 1..Len(ms)} |->
     f(ms[CHOOSE i \in 1..Len(ms) : ms[i].k = k].v)]

\* StreamAggregatedTerms: TermData built from rawTerm, for the map key keyStr
StreamBuild(r, key) ==
  Decoded(IF r.searchTerm.t = "str" /\ r.searchTerm.s # "" THEN r.searchTerm.s ELSE key,
          IF r.definitions.t = "obj" THEN MapOf(r.definitions.ms, SprintfV)
          ELSE IF r.definitions.t = "str"
               THEN [k \in {"default"} |-> Text(r.definitions.s)]
          ELSE <<>>,
          r.relatedTerms, r.definitionsCount, r.relatedTermsCount)

\* json decoding into the struct TermData: a string field takes a string, a
\* map[string]string an object of strings; anything else is a type error
StructDecode(r) ==
  IF \/ r.searchTerm.t # "str"
     \/ r.definitions.t \in {"str", "variant"}
     \/ /\ r.definitions.t = "obj"
        /\ \E i \in 1..Len(r.definitions.ms) : r.definitions.ms[i].v.t # "str"
  THEN Rejected
  ELSE Decoded(r.searchTerm.s,
               IF r.definitions.t = "obj"
               THEN MapOf(r.definitions.ms, LAMBDA v : Text(v.s)) ELSE <<>>,
               r.relatedTerms, r.definitionsCount, r.relatedTermsCount)

\* the worker of ReadTermFiles: err == nil && term.SearchTerm != ""
WorkerDecode(r) ==
  LET t == StructDecode(r)
  IN  IF t.ok /\ t.SearchTerm # "" THEN t ELSE Rejected

\* the older driver: the struct TermData, else the paged form, whose
\* searchTerm is an object and whose definitions hold strings or objects
OlderDecode(r) ==
  LET t == StructDecode(r)
  IN  IF t.ok /\ t.SearchTerm # "" THEN t
      ELSE IF r.searchTerm.t # "variant" \/ r.definitions.t \in {"str", "variant"}
      THEN Rejected
      ELSE IF r.searchTerm.u = "" /\ r.searchTerm.w = "" THEN Rejected
      ELSE Decoded(r.searchTerm.u,
                   IF r.definitions.t = "obj"
                   THEN MapOf(r.definitions.ms,
                              LAMBDA v : IF v.t = "str" THEN Text(v.s)
                                         ELSE Composed(v.u, v.w))
                   ELSE <<>>,
                   r.relatedTerms, r.definitionsCount, r.relatedTermsCount)

\* formatTermChapter: whether the Definitions and the Related Terms sections
\* are written
FormatTermChapter(t) ==
  [by |-> "formatTermChapter",
   definitions |-> t.DefinitionsCount > 0, related |-> t.RelatedTermsCount > 0]

\* buildHTML: whether the definition table and the related list are written
BuildHTML(t) ==
  [by |-> "buildHTML",
   definitions |-> t.DefinitionsCount > 0, related |-> t.RelatedTermsCount > 0]

InitRec ==
  /\ AggIdle
  /\ PoolIdle
  /\ SplitIdle
  /\ MemIdle
  /\ ChapIdle
  /\ ReaderIdle
  /\ rec \in Recs
  /\ recPath = "none"
  /\ recTerm = <<>>
  /\ recShown = <<>>

\* the record is an entry of the terms map of an aggregated file, with key "k"
DecodeByStream ==
  /\ recPath = "none"
  /\ recPath' = "stream"
  /\ recTerm' = StreamBuild(rec, "k")
  /\ UNCHANGED <<aggVars, poolVars, epubVars, readerVars, splitVars, memVars, chapVars, rec, recShown>>

\* the record is one of several small files
DecodeByWorker ==
  /\ recPath = "none"
  /\ recPath' = "worker"
  /\ recTerm' = WorkerDecode(rec)
  /\ UNCHANGED <<aggVars, poolVars, epubVars, readerVars, splitVars, memVars, chapVars, rec, recShown>>

\* the record is a file read by the older driver
DecodeByOlder ==
  /\ recPath = "none"
  /\ recPath' = "older"
  /\ recTerm' = OlderDecode(rec)
  /\ UNCHANGED <<aggVars, poolVars, epubVars, readerVars, splitVars, memVars, chapVars, rec, recShown>>

\* the chapter of the decoded record
RenderChapter ==
  /\ recPath # "none" /\ recTerm.ok
  /\ \A i \in 1..Len(recShown) : recShown[i].by # "formatTermChapter"
  /\ recShown' = Append(recShown, FormatTermChapter(recTerm))
  /\ UNCHANGED <<aggVars, poolVars, epubVars, readerVars, splitVars, memVars, chapVars, rec, recPath, recTerm>>

\* the HTML block of the decoded record
RenderHTML ==
  /\ recPath # "none" /\ recTerm.ok
  /\ \A i \in 1..Len(recShown) : recShown[i].by # "buildHTML"
  /\ recShown' = Append(recShown, BuildHTML(recTerm))
  /\ UNCHANGED <<aggVars, poolVars, epubVars, readerVars, splitVars, memVars, chapVars, rec, recPath, recTerm>>

NextRec ==
  DecodeByStream \/ DecodeByWorker \/ DecodeByOlder \/ RenderChapter \/ RenderHTML

SpecRec == InitRec /\ [][NextRec]_vars

\* C16: a record whose `definitions` field is a bare JSON string decodes, on
\* every path that decodes term records, to the one-entry mapping from
\* "default" to that string; the record is not rejected.
C16_BareStringDefinitions ==
  (recPath # "none" /\ rec.definitions.t = "str")
  => /\ recTerm.ok
     /\ recTerm.Definitions = [k \in {"default"} |-> Text(rec.definitions.s)]

\* C17: a value of the `definitions` mapping that is an object with unicode
\* and wylie decodes to "unicode (wylie)" when both are non-empty and
\* otherwise to the one that is non-empty.
C17_VariantPairDefinitions ==
  (recPath # "none" /\ recTerm.ok /\ rec.definitions.t = "obj")
  => \A i \in 1..Len(rec.definitions.ms) :
       LET m == rec.definitions.ms[i]
       IN  m.v.t = "variant" =>
             recTerm.Definitions[m.k] =
               (IF m.v.u # "" /\ m.v.w # "" THEN <<m.v.u, " (", m.v.w, ")">>
                ELSE IF m.v.u # "" THEN <<m.v.u>>
                ELSE <<m.v.w>>)

\* C20: the Definitions section is written exactly when the record has at
\* least one definition, and the Related Terms section exactly when it has
\* at least one related term, whatever definitionsCount and
\* relatedTermsCount say.
C20_SectionsFollowContents ==
  \A i \in 1..Len(recShown) :
    /\ recShown[i].definitions <=> (DOMAIN recTerm.Definitions # {})
    /\ recShown[i].related <=> (recTerm.RelatedTerms # <<>>)

(***************************************************************************)
(* Claims on the decoding of the entries of the terms map (SpecAgg).       *)
(***************************************************************************)
\* the document is an object whose `terms` member is an object of entries
\* that are objects, with no invalid character and no string value "terms"
PlainTerms(d) ==
  /\ d.pre \in {<<>>, <<Member("timestamp", Str("t"))>>}
  /\ d.terms.kind = "obj"
  /\ \A i \in 1..Len(d.terms.entries) : d.terms.entries[i].kind = "obj"

\* C18: an entry whose definitionsCount is written 1 or 1.0 is accepted by
\* both passes, and both give the count 1.
C18_NumericCounts ==
  PlainTerms(input)
  => /\ collectRet.state # "none" =>
          /\ collectRet.state = "ok"
          /\ IsPermutation(collectRet.metas, StreamOrderTriples(input))
     /\ streamRet.state = "err" => streamRet.err = "callback error"
     /\ \A i \in 1..Len(calls) :
          calls[i].term.DefinitionsCount
            = EntryTriple(input.terms.entries[i]).DefinitionsCount

MaxSources == 2
\* calls of formatTermChapter, and of buildHTML, on the record
MaxCalls == 2

SourceNames == <<"a", "b", "ab">>
Sources == {SourceNames[i] : i \in 1..(IF MaxSources <= 3 THEN MaxSources ELSE 3)}

\* the map[string]string values with keys among the sources and values in V
Maps(V) == UNION {[S -> V] : S \in SUBSET Sources}

\* m[k] of a Go map: the zero value for a key that is not there
MapGet(m, k) == IF k \in DOMAIN m THEN m[k] ELSE ""

\* the orders in which a `range` over the map m can visit its keys
RangeOrders(m) ==
  {o \in [1..Cardinality(DOMAIN m) -> DOMAIN m] :
     \A i, j \in DOMAIN o : i # j => o[i] # o[j]}

\* strings.TrimSpace on the strings of the model
TrimSpace(s) == IF s = " " THEN "" ELSE s

\* the five replacements of escapeXML, "&" first
escapeXML(s) ==
  CASE s = "&"  -> "&amp;"
    [] s = "<"  -> "&lt;"
    [] s = ">"  -> "&gt;"
    [] s = "\"" -> "&quot;"
    [] s = "'"  -> "&apos;"
    [] OTHER    -> s

\* %d
Itoa(n) ==
  CASE n = 0 -> "0" [] n = 1 -> "1" [] n = 2 -> "2" [] n = 3 -> "3" [] n = 4 -> "4"
    [] n = 5 -> "5" [] OTHER -> "n"

RECURSIVE SortStrings(_)
\* sort.Strings of the strings of the set S
SortStrings(S) ==
  IF S = {} THEN <<>>
  ELSE LET least == CHOOSE s \in S : \A t \in S \ {s} : StrLess(s, t)
       IN  <<least>> \o SortStrings(S \ {least})

RECURSIVE ConcatAll(_)
ConcatAll(ss) == IF ss = <<>> THEN <<>> ELSE Head(ss) \o ConcatAll(Tail(ss))

\* the first value of the map m, visited in the order o, that is not blank
FirstNonBlank(m, o) ==
  LET hits == {i \in DOMAIN o : TrimSpace(m[o[i]]) # ""}
  IN  IF hits = {} THEN ""
      ELSE m[o[CHOOSE i \in hits : \A j \in hits : i <= j]]

\* the Unicode of the first related term that names the term itself
SelfMatch(term) ==
  LET hits == {i \in 1..Len(term.RelatedTerms) :
                 /\ term.RelatedTerms[i].Wylie = term.SearchTerm
                 /\ TrimSpace(term.RelatedTerms[i].Unicode) # ""}
  IN  IF hits = {} THEN ""
      ELSE term.RelatedTerms[CHOOSE i \in hits : \A j \in hits : i <= j].Unicode

\* termUnicode of formatTermChapter, the loop over DefinitionsUnicode taking
\* the order o
TermUnicode(term, o) ==
  LET u == FirstNonBlank(term.DefinitionsUnicode, o)
  IN  IF u # "" THEN u ELSE SelfMatch(term)

\* one <div class="definition"> of formatTermChapter
DefinitionDiv(term, dictName) ==
  LET def  == MapGet(term.Definitions, dictName)
      wdef == MapGet(term.DefinitionsWylie, dictName)
      udef == MapGet(term.DefinitionsUnicode, dictName)
  IN  <<"dict-name:", escapeXML(dictName)>>
      \o (IF TrimSpace(udef) # "" THEN <<"unicode:", escapeXML(udef)>> ELSE <<>>)
      \o (IF TrimSpace(wdef) # "" THEN <<"wylie:", escapeXML(wdef)>> ELSE <<>>)
      \o (IF TrimSpace(def) # "" THEN <<"p:", escapeXML(def)>> ELSE <<>>)

\* formatTermChapter(chapterNum, term), the loop that looks for termUnicode
\* visiting DefinitionsUnicode in the order o.  The format of the head has
\* two verbs and one argument: the title takes it, the heading gets none.
formatTermChapter(chapterNum, term, o) ==
  LET termUnicode == TermUnicode(term, o)
      names == SortStrings(DOMAIN term.Definitions \cup DOMAIN term.DefinitionsWylie
                             \cup DOMAIN term.DefinitionsUnicode)
  IN  <<"title:", escapeXML(term.SearchTerm), "h1:", "%!s(MISSING)">>
      \o (IF termUnicode # ""
          THEN <<"unicode:", escapeXML(termUnicode), "wylie:", escapeXML(term.SearchTerm)>>
          ELSE <<"wylie:", escapeXML(term.SearchTerm)>>)
      \o (IF term.DefinitionsCount > 0
          THEN <<"Definitions">>
               \o ConcatAll([i \in 1..Len(names) |-> DefinitionDiv(term, names[i])])
          ELSE <<>>)
      \o (IF term.RelatedTermsCount > 0
          THEN <<"Related Terms">>
               \o ConcatAll([i \in 1..Len(term.RelatedTerms) |->
                    LET rt == term.RelatedTerms[i]
                    IN  IF rt.Unicode # "" \/ rt.Wylie # ""
                        THEN <<"li:", escapeXML(rt.Unicode), "(", escapeXML(rt.Wylie)>>
                        ELSE <<>>])
          ELSE <<>>)
      \o <<"Term #", Itoa(chapterNum), Itoa(term.DefinitionsCount),
           Itoa(term.RelatedTermsCount)>>

\* buildHTML for the one-element slice holding term: the block of the term,
\* the loop over Definitions visiting its keys in the order o
buildHTML(term, o) ==
  LET display == IF term.SearchTerm = "" THEN term.SearchTermWylie ELSE term.SearchTerm
  IN  <<"h2:", escapeXML(display), "(", escapeXML(term.SearchTermWylie)>>
      \o (IF term.DefinitionsCount > 0
          THEN <<"table">>
               \o ConcatAll([i \in DOMAIN o |->
                    IF term.Definitions[o[i]] = "" THEN <<>>
                    ELSE <<"tr:", escapeXML(o[i]), term.Definitions[o[i]]>>])
          ELSE <<>>)
      \o (IF term.RelatedTermsCount > 0
          THEN <<"Related:">>
               \o ConcatAll([i \in 1..Len(term.RelatedTerms) |->
                    <<"li:", escapeXML(term.RelatedTerms[i].Unicode), "(",
                      escapeXML(term.RelatedTerms[i].Wylie)>>])
          ELSE <<>>)
      \o <<"Term #", Itoa(1), Itoa(term.DefinitionsCount), Itoa(term.RelatedTermsCount)>>

\* the records rendered
ChTerms ==
  [SearchTerm : {"a"}, SearchTermWylie : {"a"},
   Definitions : Maps({"", "d"}),
   DefinitionsWylie : {<<>>, [k \in {"a"} |-> "w"]},
   DefinitionsUnicode : Maps({" ", "U1", "U2"}),
   RelatedTerms : {<<>>, <<RelatedTerm("a", "RU")>>},
   DefinitionsCount : {0, 1}, RelatedTermsCount : {0, 1}]

InitChap ==
  /\ AggIdle
  /\ PoolIdle
  /\ SplitIdle
  /\ MemIdle
  /\ ReaderIdle
  /\ RecIdle
  /\ chTerm \in ChTerms
  /\ chapters = <<>>
  /\ pages = <<>>

\* chapter := eg.formatTermChapter(1, term)
CallFormatTermChapter ==
  /\ chTerm # <<>>
  /\ Len(chapters) < MaxCalls
  /\ \E o \in RangeOrders(chTerm.DefinitionsUnicode) :
       chapters' = Append(chapters, formatTermChapter(1, chTerm, o))
  /\ UNCHANGED <<aggVars, poolVars, epubVars, readerVars, splitVars, memVars, recVars, chTerm, pages>>

\* html := eg.buildHTML([]TermData{term}, nil)
CallBuildHTML ==
  /\ chTerm # <<>>
  /\ Len(pages) < MaxCalls
  /\ \E o \in RangeOrders(chTerm.Definitions) :
       pages' = Append(pages, buildHTML(chTerm, o))
  /\ UNCHANGED <<aggVars, poolVars, epubVars, readerVars, splitVars, memVars, recVars, chTerm, chapters>>

NextChap == CallFormatTermChapter \/ CallBuildHTML

SpecChap == InitChap /\ [][NextChap]_vars

\* C21: two calls of formatTermChapter with the same position and the same
\* record return the same text, whatever order the loops over the record's
\* definition mappings take; so do two calls of buildHTML.
C21_DeterministicChapter ==
  /\ \A i, j \in 1..Len(chapters) : chapters[i] = chapters[j]
  /\ \A i, j \in 1..Len(pages) : pages[i] = pages[j]

(***************************************************************************)
(* Claims on the archive GenerateEPUB writes for an aggregated file        *)
(* (SpecAgg).                                                              *)
(***************************************************************************)
\* the mimetype entry is the first entry of the archive
MimetypeFirst == archive # <<>> => archive[1].name = "mimetype"

\* C22: in every run of GenerateEPUB the mimetype entry is created before
\* any other entry of the archive, and it is written with the stored
\* (uncompressed) method.
C22_MimetypeFirstStored ==
  /\ MimetypeFirst
  /\ \A i \in 1..Len(archive) :
       archive[i].name = "mimetype" => archive[i].method = "Store"

\* the numbers of the chapter entries of the archive, in the order created
ChapterNumbers == [i \in 1..Len(Chapters(archive)) |-> Chapters(archive)[i].n]

\* C23: when GenerateEPUB succeeds with n records, on either path, the
\* chapter entries created are chapter 1 to chapter n, each once and in
\* increasing order; on the aggregate path the callback is called with the
\* indices 0, 1, ..., n-1, with no gap and no repeat.
C23_ChapterNaming ==
  /\ \A i \in 1..Len(calls) : calls[i].idx = i - 1
  /\ genRet.state = "ok" =>
       LET n == IF aggregatedPath # "" THEN Len(collectRet.metas) ELSE Len(genTerms)
       IN  /\ ChapterNumbers = [i \in 1..n |-> i]
           /\ aggregatedPath # "" => Len(calls) = n

\* GenerateEPUB has succeeded on an aggregated file with two entries
C23_Witness ==
  /\ genRet.state = "ok"
  /\ aggregatedPath # ""
  /\ Len(calls) = 2
  /\ ChapterNumbers = <<1, 2>>

\* GenerateEPUB has succeeded on a slice of two terms
C23_InMemoryDone ==
  /\ genRet.state = "ok"
  /\ aggregatedPath = ""
  /\ ChapterNumbers = <<1, 2>>

\* C24: at every point of StreamAggregatedTerms at most one decoded record
\* is held; a record is held only from its decoding to the return of its
\* callback, and when the next entry is read every earlier entry has had
\* its callback called and returned.
C24_BoundedRetention ==
  /\ Len(held) <= 1
  /\ held # <<>> <=> (pass = "stream" /\ pc = "callback")
  /\ (pass = "stream" /\ pc \in {"more", "key", "decode"}) => Len(calls) = idx

\* the second entry is about to be decoded, the callback of the first has
\* returned
C24_Witness ==
  /\ pass = "stream" /\ pc = "decode"
  /\ idx = 1
  /\ Len(calls) = 1
  /\ calls[1].ret = "ok"
  /\ held = <<>>

\* where the pass stands in the file: what its countingReader has delivered
\* to its decoder, counted in tokens
FilePos(d) == d.pos - 1

\* GenerateEPUB runs on an aggregated file
AggregatePath == caller = "GenerateEPUB" /\ aggregatedPath # ""

\* C25: on the aggregate path the metadata pass has returned, and the
\* container, the package document, the TOC and the title page have been
\* written from its result, before the streaming pass starts and before any
\* chapter entry is created; the streaming pass opens the file anew and
\* starts from position zero with a decoder, an index and a progress
\* goroutine of its own.
C25_PassOrdering ==
  /\ [](AggregatePath =>
          /\ (pass = "stream" \/ Chapters(archive) # <<>>) =>
               /\ collectRet.state = "ok"
               /\ Len(archive) >= 1 + Len(FrontMatter)
               /\ SubSeq(archive, 2, 1 + Len(FrontMatter)) = FrontMatter
          /\ \A i \in 1..Len(archive) :
               archive[i].name = "OEBPS/chapter.xhtml" => i > 1 + Len(FrontMatter))
  /\ [][(pass = "stream" /\ pc = "open" /\ pc' = "scan")
          => /\ FilePos(dec') = 0
             /\ dec' = NewDecoder
             /\ idx' = 0
             /\ stopCloses'["stream"] = 0
             /\ ticker["stream"] = "none"]_vars

\* the streaming pass has just opened the file, after a metadata pass that
\* read two entries to the end of the file
C25_Witness ==
  /\ AggregatePath
  /\ pass = "stream" /\ pc = "scan"
  /\ FilePos(dec) = 0
  /\ Len(collectRet.metas) = 2
  /\ Len(archive) = 1 + Len(FrontMatter)

(***************************************************************************)
(* Claims on the counter read while the file is being read (SpecReader).   *)
(***************************************************************************)
RECURSIVE SumN(_)
\* the sum of the n of the reads rs
SumN(rs) == IF rs = <<>> THEN 0 ELSE rs[Len(rs)].n + SumN(SubSeq(rs, 1, Len(rs) - 1))

\* the sums of n over the prefixes of the reads that have been counted
PrefixSums == {SumN(SubSeq(reads, 1, k)) : k \in 0..Len(reads)}

\* C26: each Read returns the (n, err) the source gave it and adds that n,
\* no more and no less, to the counter; every value BytesRead() returns to
\* a poller is the sum of n over a prefix of the reads made, and the values
\* a poller sees one after the other never decrease.
C26_CounterUnderPolling ==
  /\ [](/\ crRead = SumN(reads)
        /\ \A i \in 1..Len(polled) : polled[i] \in PrefixSums
        /\ \A i, j \in 1..Len(polled) : i <= j => polled[i] <= polled[j])
  /\ [][(pcRead = "count" /\ pcRead' = "idle")
          => /\ reads' = Append(reads, got[1])
             /\ crRead' = crRead + got[1].n]_vars
  /\ [][polled' # polled => polled' = Append(polled, crRead)]_vars

\* a poller has seen the counter before and after a Read, and a Read has
\* passed on an error of the source
C26_Witness ==
  /\ Len(polled) = 2
  /\ polled[1] < polled[2]
  /\ Len(reads) >= 2
  /\ reads[Len(reads)].err = ErrIO

\* C27: on every path of CollectAggregatedMetadata and of
\* StreamAggregatedTerms the stop channel of the progress goroutine is
\* closed at most once.
C27_StopClosedAtMostOnce == \A p \in Passes : stopCloses[p] <= 1

\* both passes have returned, each having closed its stop channel once
C27_Witness ==
  /\ BothPassesOk
  /\ \A p \in Passes : stopCloses[p] = 1

(***************************************************************************)
(* The package document and what it refers to.                             *)
(***************************************************************************)
\* metas of GenerateEPUB: the result of the first pass, or on the in-memory
\* path one TermMeta per term
GenMetas ==
  IF aggregatedPath # "" THEN collectRet.metas
  ELSE [i \in 1..Len(genTerms) |->
          TermMeta(genTerms[i].SearchTerm, genTerms[i].DefinitionsCount,
                   genTerms[i].RelatedTermsCount)]

\* a resource named in OEBPS/content.opf, by the name its entry has in the
\* archive (hrefs are relative to OEBPS/) and for a chapter its number
Ref(name, n) == [name |-> name, n |-> n]

\* writeContentOPF_FromMetas: the items of the manifest and the references
\* of the guide
PackageRefs(ms) ==
  {Ref("OEBPS/toc.ncx", 0), Ref("OEBPS/style.css", 0),
   Ref("OEBPS/fonts/DDC_Uchen-webfont.woff", 0), Ref("OEBPS/title.xhtml", 0)}
  \cup {Ref("OEBPS/chapter.xhtml", i) : i \in 1..Len(ms)}
  \cup {Ref("OEBPS/toc.xhtml", 0), Ref("OEBPS/title.xhtml", 0)}

\* the archive has an entry for the resource r
HasEntry(ar, r) == \E i \in 1..Len(ar) : ar[i].name = r.name /\ ar[i].n = r.n

\* C28: after a successful GenerateEPUB every resource the package document
\* refers to (the manifest items ncx, style, font, title and chapter 1..n,
\* and the references of the guide) is an entry of the archive, also when
\* the font file was not found and embedding was skipped.
C28_ManifestConsistency ==
  genRet.state = "ok" => \A r \in PackageRefs(GenMetas) : HasEntry(archive, r)

\* the same, leaving out the font and the toc.xhtml of the guide
C28_OtherResourcesPresent ==
  genRet.state = "ok" =>
    \A r \in PackageRefs(GenMetas) \ {Ref("OEBPS/fonts/DDC_Uchen-webfont.woff", 0),
                                       Ref("OEBPS/toc.xhtml", 0)} :
      HasEntry(archive, r)

\* the document has the string value "terms" before its `terms` member,
\* which is an object of entries that are objects with integer counts
TermsValueBeforeKey(d) ==
  /\ d.pre = <<Member("timestamp", Str("terms"))>>
  /\ d.terms.kind = "obj"
  /\ \A i \in 1..Len(d.terms.entries) :
       /\ d.terms.entries[i].kind = "obj"
       /\ d.terms.entries[i].dc = ABSENT \/ IsIntLit(d.terms.entries[i].dc)

\* C29: both passes start iterating entries only at the object key `terms`:
\* in a document with an earlier string value "terms" the passes succeed
\* and go through exactly the entries of the terms map, the metadata pass
\* returning their triples and the streaming pass calling the callback once
\* for each, in order.
C29_LocatingTerms ==
  TermsValueBeforeKey(input)
  => /\ collectRet.state # "none" =>
          /\ collectRet.state = "ok"
          /\ IsPermutation(collectRet.metas, StreamOrderTriples(input))
     /\ streamRet.state = "err" => streamRet.err = "callback error"
     /\ streamRet.state = "ok" => Len(calls) = Len(input.terms.entries)
     /\ \A i \in 1..Len(calls) :
          /\ i <= Len(input.terms.entries)
          /\ calls[i].term.SearchTerm = EntryTriple(input.terms.entries[i]).SearchTerm

\* the two passes agree on where they leave the scan for the key: when one
\* fails before any entry the other does too, and with the same error
C29_SamePosition ==
  (collectRet.state # "none" /\ streamRet.state # "none"
     /\ streamRet.err # "callback error"
     /\ \A i \in 1..Len(input.terms.entries) :
          input.terms.entries[i].kind \in {"obj", "bad", "badkey"}
          /\ (input.terms.entries[i].dc = ABSENT \/ IsIntLit(input.terms.entries[i].dc)))
  => collectRet.state = streamRet.state

(***************************************************************************)
(* main of the older driver: the terms read are split into parts by the    *)
(* total size of the input files, and one EPUB is generated per part.      *)
(***************************************************************************)
\* const targetSize int64 = 30 * 1024 * 1024
targetSize == 31457280
\* the total size is up to MaxWhole times targetSize, and the remainder
MaxWhole == 2
\* terms read
MaxSplitTerms == 4

\* the sizes calculateJSONFilesSize returns
TotalSizes ==
  {k * targetSize + d : k \in 0..MaxWhole, d \in {0, 1, targetSize - 1}}

\* *outputFile as its pieces: with and without the extension .epub
OutputFiles == {<<"dict", ".epub">>, <<"dict">>}

\* strings.HasSuffix(path, ".epub") and strings.TrimSuffix(path, ".epub")
HasSuffixEpub(path) == path # <<>> /\ path[Len(path)] = ".epub"
TrimSuffixEpub(path) ==
  IF HasSuffixEpub(path) THEN SubSeq(path, 1, Len(path) - 1) ELSE path

\* numParts := int((totalSize + targetSize - 1) / targetSize), at least 1
NumParts(size) ==
  LET n == (size + targetSize - 1) \div targetSize
  IN  IF n < 1 THEN 1 ELSE n

\* the split with termPerPart rounded down
SplitParts_RoundsDown(ts, n) ==
  LET termPerPart == Len(ts) \div n
  IN  [i \in 1..n |->
         LET startIdx == (i - 1) * termPerPart
             endIdx   == IF startIdx + termPerPart > Len(ts) THEN Len(ts)
                         ELSE startIdx + termPerPart
         IN  IF startIdx < Len(ts) THEN SubSeq(ts, startIdx + 1, endIdx) ELSE <<>>]

\* parts: termPerPart := (len(terms) + numParts - 1) / numParts, and
\* parts[i] = terms[startIdx:endIdx] when startIdx < len(terms)
SplitParts(ts, n) ==
  LET termPerPart == (Len(ts) + n - 1) \div n
  IN  [i \in 1..n |->
         LET startIdx == (i - 1) * termPerPart
             endIdx   == IF startIdx + termPerPart > Len(ts) THEN Len(ts)
                         ELSE startIdx + termPerPart
         IN  IF startIdx < Len(ts) THEN SubSeq(ts, startIdx + 1, endIdx) ELSE <<>>]

\* outputPath of part i (counted from 0)
OutputPath(file, n, i) ==
  IF n = 1 THEN file
  ELSE TrimSuffixEpub(file) \o <<"-part-", Itoa(i + 1), ".epub">>

\* partTitle of part i (counted from 0)
PartTitle(n, i) ==
  IF n > 1 THEN <<"title", " - Part ", Itoa(i + 1)>> ELSE <<"title">>

\* ReadTermFiles has returned T >= 1 terms, here the terms 1..T in order
InitSplit ==
  /\ AggIdle
  /\ PoolIdle
  /\ MemIdle
  /\ ChapIdle
  /\ ReaderIdle
  /\ RecIdle
  /\ spTerms \in {[i \in 1..t |-> i] : t \in 1..MaxSplitTerms}
  /\ totalSize \in TotalSizes
  /\ outputFile \in OutputFiles
  /\ numParts = 0
  /\ spParts = <<>>
  /\ partI = 0
  /\ outputs = <<>>
  /\ pcSplit = "split"

\* numParts and parts
SplitTerms ==
  /\ pcSplit = "split"
  /\ numParts' = NumParts(totalSize)
  /\ spParts' = SplitParts(spTerms, NumParts(totalSize))
  /\ partI' = 0
  /\ pcSplit' = "generate"
  /\ UNCHANGED <<aggVars, poolVars, epubVars, readerVars, recVars, chapVars, memVars,
                 spTerms, totalSize, outputFile, outputs>>

\* one turn of the loop that generates the parts: an empty part is skipped;
\* GenerateEPUB of a part may fail, and then main exits
GeneratePart ==
  /\ pcSplit = "generate"
  /\ partI < numParts
  /\ IF Len(spParts[partI + 1]) = 0
     THEN /\ partI' = partI + 1
          /\ UNCHANGED <<outputs, pcSplit>>
     ELSE \E ok \in BOOLEAN :
            /\ outputs' = Append(outputs,
                            [part |-> partI + 1,
                             outputPath |-> OutputPath(outputFile, numParts, partI),
                             partTitle |-> PartTitle(numParts, partI),
                             terms |-> spParts[partI + 1],
                             ok |-> ok])
            /\ IF ok THEN partI' = partI + 1 /\ UNCHANGED pcSplit
               ELSE pcSplit' = "exit1" /\ UNCHANGED partI
  /\ UNCHANGED <<aggVars, poolVars, epubVars, readerVars, recVars, chapVars, memVars,
                 spTerms, totalSize, outputFile, numParts, spParts>>

\* the loop is over: main returns
SplitDone ==
  /\ pcSplit = "generate"
  /\ partI = numParts
  /\ pcSplit' = "done"
  /\ UNCHANGED <<aggVars, poolVars, epubVars, readerVars, recVars, chapVars, memVars,
                 spTerms, totalSize, outputFile, numParts, spParts, partI, outputs>>

NextSplit == SplitTerms \/ GeneratePart \/ SplitDone

SpecSplit == InitSplit /\ [][NextSplit]_vars

\* the least q with q * b >= a
CeilDiv(a, b) == CHOOSE q \in 0..(MaxWhole + MaxSplitTerms + 2) : q * b >= a /\ (q - 1) * b < a

\* C30: numParts is max(1, ceil(totalSize / 30 MiB)); the parts are slices
\* of the sorted term list that follow one another, their concatenation in
\* part order is the whole list, so that every term is in exactly one part,
\* and no part has more than ceil(T / numParts) terms; empty parts are
\* skipped; a single part is written under the original output file name,
\* and part i of several under <base>-part-<i>.epub.
C30_MultiPartSplit ==
  pcSplit \in {"generate", "exit1", "done"} =>
    /\ numParts = (IF CeilDiv(totalSize, targetSize) < 1 THEN 1
                   ELSE CeilDiv(totalSize, targetSize))
    /\ Len(spParts) = numParts
    /\ ConcatAll(spParts) = spTerms
    /\ \A t \in 1..Len(spTerms) :
         Cardinality({i \in 1..numParts :
                        \E j \in 1..Len(spParts[i]) : spParts[i][j] = spTerms[t]}) = 1
    /\ \A i \in 1..numParts : Len(spParts[i]) <= CeilDiv(Len(spTerms), numParts)
    /\ \A k \in 1..Len(outputs) :
         /\ outputs[k].terms # <<>>
         /\ outputs[k].terms = spParts[outputs[k].part]
         /\ \A l \in 1..Len(outputs) : k < l => outputs[k].part < outputs[l].part
         /\ outputs[k].outputPath =
              (IF numParts = 1 THEN outputFile
               ELSE (IF outputFile[Len(outputFile)] = ".epub"
                     THEN SubSeq(outputFile, 1, Len(outputFile) - 1) ELSE outputFile)
                    \o <<"-part-", Itoa(outputs[k].part), ".epub">>)
    /\ pcSplit = "done" =>
         ConcatAll([k \in 1..Len(outputs) |-> outputs[k].terms]) = spTerms

\* three parts were asked for and four terms read: two parts of two terms
\* were written and the empty third part was skipped
C30_Witness ==
  /\ pcSplit = "done"
  /\ numParts = 3
  /\ Len(spTerms) = 4
  /\ Len(outputs) = 2
  /\ spParts[3] = <<>>
  /\ outputs[2].outputPath = <<"dict", "-part-", "2", ".epub">>
=============================================================================
